---- MODULE Spec2Model ----
(***************************************************************************)
(* Multi-Org Integration Platform: the manual-sync route and the batch     *)
(* sync engine (backend/routes/integrations.js,                            *)
(* backend/services/integrationService.js).                                *)
(*                                                                         *)
(* One Integration document lives in the store.  Sync requests arrive at   *)
(* POST /:id/sync; every accepted request starts its own performSync run.  *)
(* A run advances at the await points of the code.  The simulated          *)
(* collaborators of the code (source query, conflict detection, target     *)
(* write) are the environment: what the source org holds, which records    *)
(* the target refuses and where conflicts are detected is fixed in Init.   *)
(***************************************************************************)
EXTENDS Naturals, Sequences, FiniteSets

\* ------------------------------------------------------------------ bounds

\* Sync requests that arrive in a scenario with a small source org.
MaxRequests == 2
\* Longest source org content that is enumerated exhaustively.
MaxSmallRecords == 2
\* Webhook processings (processWebhookForIntegration calls) in a scenario.
MaxWebhooks == 3
\* Longest field-mapping list handed to applyFieldMappings.
MaxMappings == 2
\* Longest conflict list handed to resolveConflicts.
MaxConflicts == 2
\* Callbacks stored for one event while the client has no socket.
MaxListeners == 1
\* Events one callback receives in a scenario.
MaxDeliveries == 2
\* Most records querySourceData returns to the batching.
MaxFetched == 120

\* ------------------------------------------------------------ JS values

\* null / undefined where an object or an array is expected
NULL == [null |-> TRUE]
\* undefined where a string is expected; also "no error message"
Undefined == "undefined"
\* undefined where an array is expected
NoArray == <<NULL>>

\* const batchSize = 50;
batchSize == 50

Min(a, b) == IF a < b THEN a ELSE b

\* Field values.  A string is the sequence of its characters, so that the
\* string methods are computed on it; null is NULL.
JsUndefined == [undefined |-> TRUE]
Str(s) == [t |-> "string", s |-> s]
Num(n) == [t |-> "number", n |-> n]
Bool(b) == [t |-> "boolean", b |-> b]
IsString(v) == "s" \in DOMAIN v

\* !v, and v == null
Falsy(v) == v \in { NULL, JsUndefined, Str(<<>>), Num(0), Bool(FALSE) }
Nullish(v) == v \in { NULL, JsUndefined }

\* An object that is no string, number or boolean.
Obj == [t |-> "object"]

\* `${value}`: the text of a value in a template literal (numbers below
\* ten are drawn).
Digits == <<"0", "1", "2", "3", "4", "5", "6", "7", "8", "9">>
toText(value) ==
    CASE value = NULL -> <<"n", "u", "l", "l">>
      [] value = JsUndefined ->
            <<"u", "n", "d", "e", "f", "i", "n", "e", "d">>
      [] value = Obj ->
            <<"[", "o", "b", "j", "e", "c", "t", " ", "O", "b", "j", "e",
              "c", "t", "]">>
      [] value = Bool(TRUE) -> <<"t", "r", "u", "e">>
      [] value = Bool(FALSE) -> <<"f", "a", "l", "s", "e">>
      [] "n" \in DOMAIN value -> <<Digits[value.n + 1]>>
      [] OTHER -> value.s

\* What a call evaluates to when it throws.
Thrown == [threw |-> TRUE]

\* Characters: \s, \d and toLowerCase().
IsSpace(c) == c = " "
IsDigit(c) == c \in {"0", "1", "2", "3", "4", "5", "6", "7", "8", "9"}
Upper ==
    <<"A", "B", "C", "D", "E", "F", "G", "H", "I", "J", "K", "L", "M", "N",
      "O", "P", "Q", "R", "S", "T", "U", "V", "W", "X", "Y", "Z">>
Lower ==
    <<"a", "b", "c", "d", "e", "f", "g", "h", "i", "j", "k", "l", "m", "n",
      "o", "p", "q", "r", "s", "t", "u", "v", "w", "x", "y", "z">>

lowerChar(c) ==
    IF \E i \in 1..Len(Upper) : Upper[i] = c
      THEN Lower[CHOOSE i \in 1..Len(Upper) : Upper[i] = c]
      ELSE c

\* String.prototype.toLowerCase, trim, slice(from, to) (0-based, end
\* exclusive), replace(/\D/g, '') and replace(/\s+/g, ' ').
lowerCase(s) == [i \in 1..Len(s) |-> lowerChar(s[i])]
trim(s) ==
    LET inked == { i \in 1..Len(s) : ~IsSpace(s[i]) } IN
    IF inked = {} THEN <<>>
    ELSE SubSeq(s, CHOOSE i \in inked : \A j \in inked : i <= j,
                   CHOOSE i \in inked : \A j \in inked : i >= j)
slice(s, from, to) == SubSeq(s, from + 1, Min(to, Len(s)))
digitsOf(s) == SelectSeq(s, IsDigit)
RECURSIVE collapseSpaces(_)
collapseSpaces(s) ==
    IF s = <<>> THEN <<>>
    ELSE IF IsSpace(Head(s))
      THEN IF Len(s) > 1 /\ IsSpace(s[2])
             THEN collapseSpaces(Tail(s))
             ELSE <<" ">> \o collapseSpaces(Tail(s))
      ELSE <<Head(s)>> \o collapseSpaces(Tail(s))

\* ------------------------------------------------- the Integration document

OrgName == "Org"
LoginUrl == "https://login.salesforce.com"

\* sourceOrg / targetOrg of a document: absent, without a name, without a
\* login URL, or complete.
OrgValues ==
    { NULL,
      [name |-> Undefined, loginUrl |-> LoginUrl],
      [name |-> OrgName, loginUrl |-> Undefined],
      [name |-> OrgName, loginUrl |-> LoginUrl] }

GoodOrg == [name |-> OrgName, loginUrl |-> LoginUrl]

NameMapping == [sourceField |-> "Name", targetField |-> "Name"]

\* fieldMappings of a document: absent, empty, or one mapping.
MappingValues == { NoArray, <<>>, <<NameMapping>> }

\* syncSettings of a document: absent, or with a conflict resolution strategy.
SettingsValues == { NULL, [conflictResolution |-> "source-wins"] }

Documents ==
    [ isActive : BOOLEAN,
      status : {"inactive"},
      sourceOrg : OrgValues,
      targetOrg : OrgValues,
      fieldMappings : MappingValues,
      syncSettings : SettingsValues ]

GoodDocument ==
    [ isActive |-> TRUE,
      status |-> "inactive",
      sourceOrg |-> GoodOrg,
      targetOrg |-> GoodOrg,
      fieldMappings |-> <<NameMapping>>,
      syncSettings |-> [conflictResolution |-> "source-wins"] ]

\* validateIntegrationConfig without its check for an empty mapping list.
validateIgnoresEmptyMappings(integration) ==
    IF integration.sourceOrg = NULL
      THEN "Integration configuration missing required field: sourceOrg"
    ELSE IF integration.targetOrg = NULL
      THEN "Integration configuration missing required field: targetOrg"
    ELSE IF integration.fieldMappings = NoArray
      THEN "Integration configuration missing required field: fieldMappings"
    ELSE IF integration.sourceOrg.loginUrl = Undefined
            \/ integration.targetOrg.loginUrl = Undefined
      THEN "Source and target org login URLs are required"
    ELSE Undefined

\* validateIntegrationConfig: the message of the Error it throws, or
\* Undefined when it returns.
validateIntegrationConfig(integration) ==
    IF integration.sourceOrg = NULL
      THEN "Integration configuration missing required field: sourceOrg"
    ELSE IF integration.targetOrg = NULL
      THEN "Integration configuration missing required field: targetOrg"
    ELSE IF integration.fieldMappings = NoArray
      THEN "Integration configuration missing required field: fieldMappings"
    ELSE IF integration.sourceOrg.loginUrl = Undefined
            \/ integration.targetOrg.loginUrl = Undefined
      THEN "Source and target org login URLs are required"
    ELSE IF Len(integration.fieldMappings) = 0
      THEN "At least one field mapping is required"
    ELSE Undefined

\* authenticate: after its delay it builds the token with
\* org.name.toLowerCase(), a TypeError when the org has no name.
\* The message of the error, or Undefined when a token is returned.
authenticate(org) ==
    IF org.name = Undefined
      THEN "Cannot read properties of undefined (reading 'toLowerCase')"
      ELSE Undefined

\* ------------------------------------------------------------ source data

\* What becomes of one element of the source data in processBatch:
\*   ok         mapped and written
\*   conflict1  one conflict detected and resolved, then written
\*   conflict2  two conflicts detected and resolved, then written
\*   unresolved one conflict detected, none resolved, then written
\*   reject     the target refuses the write
\*   null       the element is no record (null)
Fates == {"ok", "conflict1", "conflict2", "unresolved", "reject", "null"}

\* All sequences over S of length n, and of length at most n.
RECURSIVE SeqsOfLen(_, _)
SeqsOfLen(S, n) ==
    IF n = 0 THEN { <<>> }
    ELSE { Append(s, x) : s \in SeqsOfLen(S, n - 1), x \in S }

RECURSIVE SeqsUpTo(_, _)
SeqsUpTo(S, n) ==
    IF n = 0 THEN { <<>> } ELSE SeqsOfLen(S, n) \cup SeqsUpTo(S, n - 1)

\* Record counts that give two and three batches.
LargeCounts == { batchSize + 1, 2 * batchSize + 20 }

\* In a large source org the records at the batch borders take any of these
\* fates, all other records are ok.
BorderFates == {"ok", "reject", "null"}
Borders(n) ==
    IF n <= 2 * batchSize THEN { 1, batchSize, batchSize + 1 }
    ELSE { batchSize, batchSize + 1, 2 * batchSize, 2 * batchSize + 1 }

BorderPlans(n) ==
    { [k \in 1..n |-> IF k \in Borders(n) THEN f[k] ELSE "ok"] :
        f \in [Borders(n) -> BorderFates] }

\* The number of batches of n records, and the record numbers of batch b.
NumBatches(n) == (n + batchSize - 1) \div batchSize
BatchIds(n, b) == { k \in 1..n : (k - 1) \div batchSize = b - 1 }

\* The target refuses every record of exactly one batch.
BatchOutagePlans(n) ==
    { [k \in 1..n |-> IF k \in BatchIds(n, b) THEN "reject" ELSE "ok"] :
        b \in 1..NumBatches(n) }

SmallPlans == SeqsUpTo(Fates, MaxSmallRecords)
LargePlans ==
    UNION { BorderPlans(n) \cup BatchOutagePlans(n) : n \in LargeCounts }

\* The source data of a plan: record k has Id k.
DataOf(plan) ==
    [k \in 1..Len(plan) |-> IF plan[k] = "null" THEN NULL ELSE [Id |-> k]]
RejectsOf(plan) == { k \in 1..Len(plan) : plan[k] = "reject" }
ConflictsOf(plan) ==
    [k \in 1..Len(plan) |->
        CASE plan[k] = "conflict1" -> [detected |-> 1, resolved |-> 1]
          [] plan[k] = "conflict2" -> [detected |-> 2, resolved |-> 2]
          [] plan[k] = "unresolved" -> [detected |-> 1, resolved |-> 0]
          [] OTHER -> [detected |-> 0, resolved |-> 0]]

\* createBatches: slices of batchSize elements, starting at 0 (i is 0-based).
RECURSIVE createBatchesFrom(_, _, _)
createBatchesFrom(array, size, i) ==
    IF i >= Len(array) THEN <<>>
    ELSE <<SubSeq(array, i + 1, Min(i + size, Len(array)))>>
           \o createBatchesFrom(array, size, i + size)

\* Batching that keeps the full batches only.
createFullBatches(array, size) ==
    createBatchesFrom(SubSeq(array, 1, (Len(array) \div size) * size), size, 0)

createBatches(array, size) == createBatchesFrom(array, size, 0)

\* ------------------------------------------------------------------ state

Runs == 1..MaxRequests

VARIABLES
    db,             \* the Integration document in the store, or NULL
    sourceData,     \* what querySourceData returns: records and nulls
    targetRejects,  \* Ids of the records whose write the target refuses
    conflictPlan,   \* per Id: conflicts detected and conflicts resolved
    pending,        \* sync requests that have not arrived yet
    phase,          \* per run: where the request / its performSync is
    response,       \* per run: HTTP status sent, 0 when none yet
    integration,    \* per run: the document the handler loaded
    auth,           \* per run: state of the two authenticate calls
    batches,        \* per run: the batches of performSync
    batchIndex,     \* per run: i of the batch loop, 1-based
    recordIndex,    \* per run: position of processBatch in its batch
    results,        \* per run: the accumulator of performSync
    batchResult,    \* per run: the accumulator of processBatch
    pausing,        \* per run: inside delay(200) between two batches
    pauses,         \* per run: batch numbers after which a pause was taken
    thrown,         \* per run: the error object performSync threw, or NULL
    elapsed,        \* per run: milliseconds awaited since startTime
    emitted,        \* per run: socket events emitted for the request
    authCalls,      \* per run: calls of authenticate
    fetchCalls,     \* per run: calls of querySourceData
    handed,         \* per run: Ids handed to syncToTarget, in order
    store,          \* per integration: syncStats of the stored document
    task,           \* per webhook processing: where it is, what it holds
    mapRecord,      \* applyFieldMappings: sourceRecord
    mapList,        \* applyFieldMappings: fieldMappings
    mapIndex,       \* applyFieldMappings: mappings handled so far
    mapped,         \* applyFieldMappings: mappedRecord
    mapState,       \* applyFieldMappings: "mapping", "returned" or "threw"
    rcConflicts,    \* resolveConflicts: conflicts
    rcStrategy,     \* resolveConflicts: resolutionStrategy as passed
    rcResolutions,  \* resolveConflicts: resolutions
    rcBatch,        \* resolveConflicts: the object returned, or NULL
    gmSource,       \* generateFieldMappings: sourceObjectType
    gmTarget,       \* generateFieldMappings: targetObjectType
    gmIndex,        \* generateFieldMappings: source fields handled so far
    gmMappings,     \* generateFieldMappings: fieldMappings
    gmResult,       \* generateFieldMappings: the list returned
    gmState,        \* generateFieldMappings: "idle", "matching", "returned"
    prSource,       \* record loop: record
    prMappings,     \* record loop: integration.fieldMappings
    prStrategy,     \* record loop: syncSettings.conflictResolution
    prState,        \* record loop: where the iteration is
    prMapperOut,    \* record loop: what applyFieldMappings returned
    prRecord,       \* record loop: mappedRecord
    prKeys,         \* record loop: Object.keys(mappedRecord)
    prConflicts,    \* record loop: conflicts
    prResolution,   \* record loop: resolution, or NULL
    prHanded,       \* record loop: the record handed to syncToTarget
    skSocket,       \* SocketService: this.socket, or NULL
    skIsConnected,  \* SocketService: this.isConnected
    skListeners,    \* SocketService: this.eventListeners
    skReceived,     \* per callback: the events it was called with
    cbArray,        \* createBatches: the array it is given
    cbBatches,      \* createBatches: the batches it returns
    cbState         \* createBatches: idle, fetched or batched

envVars == <<sourceData, targetRejects, conflictPlan>>
loopVars == <<batches, batchIndex, recordIndex, results, batchResult,
              pausing, pauses, handed>>
vars == <<db, sourceData, targetRejects, conflictPlan, pending, phase,
          response, integration, auth, batches, batchIndex, recordIndex,
          results, batchResult, pausing, pauses, thrown, elapsed, emitted,
          authCalls, fetchCalls, handed, store, task,
          mapRecord, mapList, mapIndex, mapped, mapState,
          rcConflicts, rcStrategy, rcResolutions, rcBatch,
          gmSource, gmTarget, gmIndex, gmMappings, gmResult, gmState,
          prSource, prMappings, prStrategy, prState, prMapperOut, prRecord,
          prKeys, prConflicts, prResolution, prHanded,
          skSocket, skIsConnected, skListeners, skReceived,
          cbArray, cbBatches, cbState>>

\* The state of a manual sync, and the state of the webhook processings.
syncVars == <<db, sourceData, targetRejects, conflictPlan, pending, phase,
              response, integration, auth, batches, batchIndex, recordIndex,
              results, batchResult, pausing, pauses, thrown, elapsed, emitted,
              authCalls, fetchCalls, handed>>
statsVars == <<store, task>>
mapperVars == <<mapRecord, mapList, mapIndex, mapped, mapState>>
resolverVars == <<rcConflicts, rcStrategy, rcResolutions, rcBatch>>
generatorVars == <<gmSource, gmTarget, gmIndex, gmMappings, gmResult,
                   gmState>>
pipelineVars == <<prSource, prMappings, prStrategy, prState, prMapperOut,
                  prRecord, prKeys, prConflicts, prResolution, prHanded>>
socketVars == <<skSocket, skIsConnected, skListeners, skReceived>>
batcherVars == <<cbArray, cbBatches, cbState>>

\* What a step of the sync, of a webhook processing, of the Field Mapper
\* and of the Conflict Resolver leaves alone.
notSyncVars == <<statsVars, mapperVars, resolverVars,
                 generatorVars,
                 pipelineVars,
                 socketVars,
                 batcherVars>>
notStatsVars == <<syncVars, mapperVars, resolverVars,
                  generatorVars,
                  pipelineVars,
                  socketVars,
                  batcherVars>>
notMapperVars == <<syncVars, statsVars, resolverVars,
                   generatorVars,
                   pipelineVars,
                   socketVars,
                   batcherVars>>
notResolverVars == <<syncVars, statsVars, mapperVars,
                     generatorVars,
                     pipelineVars,
                     socketVars,
                     batcherVars>>
notGeneratorVars == <<syncVars,
                      statsVars,
                      mapperVars,
                      resolverVars,
                      pipelineVars,
                      socketVars,
                      batcherVars>>
notPipelineVars == <<syncVars,
                     statsVars,
                     mapperVars,
                     resolverVars,
                     generatorVars,
                     socketVars,
                     batcherVars>>
notSocketVars == <<syncVars,
                   statsVars,
                   mapperVars,
                   resolverVars,
                   generatorVars,
                   pipelineVars,
                   batcherVars>>
notBatcherVars == <<syncVars,
                    statsVars,
                    mapperVars,
                    resolverVars,
                    generatorVars,
                    pipelineVars,
                    socketVars>>

\* const mappedRecord = {};
NoFields == [f \in {} |-> NULL]

\* applyFieldMappings has not been called.
MapperQuiet ==
    /\ mapRecord = NULL
    /\ mapList = <<>>
    /\ mapIndex = 0
    /\ mapped = NoFields
    /\ mapState = "returned"

\* resolveConflicts has not been called.
ResolverQuiet ==
    /\ rcConflicts = <<>>
    /\ rcStrategy = Undefined
    /\ rcResolutions = <<>>
    /\ rcBatch = NULL

\* generateFieldMappings has not been called.
GeneratorQuiet ==
    /\ gmSource = Undefined
    /\ gmTarget = Undefined
    /\ gmIndex = 0
    /\ gmMappings = <<>>
    /\ gmResult = <<>>
    /\ gmState = "idle"

\* No record is in the record loop of processBatch.
PipelineQuiet ==
    /\ prSource = NULL
    /\ prMappings = <<>>
    /\ prStrategy = Undefined
    /\ prState = "idle"
    /\ prMapperOut = NoFields
    /\ prRecord = NoFields
    /\ prKeys = <<>>
    /\ prConflicts = <<>>
    /\ prResolution = NULL
    /\ prHanded = NULL

\* The events the server emits for a sync, and the callbacks a component
\* registers.
SocketEvents == {"sync-started", "sync-completed"}
Callbacks == {"f", "g"}

\* A new SocketService: no socket, nothing stored, nothing received.
SocketQuiet ==
    /\ skSocket = NULL
    /\ skIsConnected = FALSE
    /\ skListeners = [event \in SocketEvents |-> <<>>]
    /\ skReceived = [callback \in Callbacks |-> <<>>]

\* Nothing has been fetched for batching.
BatcherQuiet ==
    /\ cbArray = <<>>
    /\ cbBatches = <<>>
    /\ cbState = "idle"

\* Webhook processings that can be under way, and the integrations they
\* are for.
WebhookTasks == 1..MaxWebhooks
IntegrationIds == {"A", "B"}

\* syncStats of a new document: the counters of the schema at their
\* defaults.
NoStats == [totalSyncs |-> 0, successfulSyncs |-> 0, failedSyncs |-> 0]

IdleTask == [state |-> "idle"]

\* No webhook has arrived.
StatsQuiet ==
    /\ store = [i \in IntegrationIds |-> NoStats]
    /\ task = [t \in WebhookTasks |-> IdleTask]

\* successRate is kept in hundredths of a percent ("58.33" is 5833).
NoResults ==
    [ totalRecords |-> 0, processedRecords |-> 0, successfulRecords |-> 0,
      failedRecords |-> 0, conflicts |-> 0, errors |-> <<>>,
      processingTime |-> 0, successRate |-> 0 ]

NoBatchResult ==
    [ successful |-> 0, failed |-> 0, conflicts |-> 0, errors |-> <<>> ]

NoAuth == [source |-> "idle", target |-> "idle"]

\* A document whose performSync reaches the batch loop.
Syncable(doc) ==
    /\ doc # NULL
    /\ doc.isActive
    /\ validateIntegrationConfig(doc) = Undefined
    /\ authenticate(doc.sourceOrg) = Undefined
    /\ authenticate(doc.targetOrg) = Undefined

\* The scenarios: any document (or none) with any small source org and
\* MaxRequests requests, or the good document with a large source org and
\* one request.  A document that never reaches the source query comes with
\* an empty source org.
Scenarios ==
    { [doc |-> d, plan |-> p, requests |-> MaxRequests] :
        d \in { x \in Documents : Syncable(x) }, p \in SmallPlans }
    \cup
    { [doc |-> d, plan |-> <<>>, requests |-> MaxRequests] :
        d \in { x \in Documents \cup {NULL} : ~Syncable(x) } }
    \cup
    { [doc |-> GoodDocument, plan |-> p, requests |-> 1] : p \in LargePlans }

Init ==
    \E s \in Scenarios :
        /\ db = s.doc
        /\ sourceData = DataOf(s.plan)
        /\ targetRejects = RejectsOf(s.plan)
        /\ conflictPlan = ConflictsOf(s.plan)
        /\ pending = s.requests
    /\ phase = [r \in Runs |-> "Idle"]
    /\ response = [r \in Runs |-> 0]
    /\ integration = [r \in Runs |-> NULL]
    /\ auth = [r \in Runs |-> NoAuth]
    /\ batches = [r \in Runs |-> <<>>]
    /\ batchIndex = [r \in Runs |-> 0]
    /\ recordIndex = [r \in Runs |-> 0]
    /\ results = [r \in Runs |-> NoResults]
    /\ batchResult = [r \in Runs |-> NoBatchResult]
    /\ pausing = [r \in Runs |-> FALSE]
    /\ pauses = [r \in Runs |-> {}]
    /\ thrown = [r \in Runs |-> NULL]
    /\ elapsed = [r \in Runs |-> 0]
    /\ emitted = [r \in Runs |-> <<>>]
    /\ authCalls = [r \in Runs |-> 0]
    /\ fetchCalls = [r \in Runs |-> 0]
    /\ handed = [r \in Runs |-> <<>>]
    /\ StatsQuiet
    /\ MapperQuiet
    /\ ResolverQuiet
    /\ GeneratorQuiet
    /\ PipelineQuiet
    /\ SocketQuiet
    /\ BatcherQuiet

\* ---------------------------------------------------------------- the route

\* The run a new request takes: the first one not yet used.
NextRun(r) ==
    /\ phase[r] = "Idle"
    /\ \A q \in Runs : q < r => phase[q] # "Idle"

\* POST /:id/sync up to "await integration.save()": the document is loaded;
\* a missing one is answered 404, an inactive one 400; otherwise the status
\* becomes 'syncing' and the document is saved.
ReceiveSync(r) ==
    /\ pending > 0
    /\ NextRun(r)
    /\ pending' = pending - 1
    /\ IF db = NULL
         THEN /\ response' = [response EXCEPT ![r] = 404]
              /\ phase' = [phase EXCEPT ![r] = "Rejected"]
              /\ UNCHANGED <<db, integration>>
       ELSE IF ~db.isActive
         THEN /\ response' = [response EXCEPT ![r] = 400]
              /\ phase' = [phase EXCEPT ![r] = "Rejected"]
              /\ UNCHANGED <<db, integration>>
       ELSE   /\ integration' =
                    [integration EXCEPT ![r] = [db EXCEPT !.status = "syncing"]]
              /\ db' = [db EXCEPT !.status = "syncing"]
              /\ phase' = [phase EXCEPT ![r] = "Saving"]
              /\ UNCHANGED response
    /\ UNCHANGED <<envVars, loopVars, auth, thrown, elapsed, emitted,
                   authCalls, fetchCalls>>

\* POST /:id/sync after the save: 'sync-started' is emitted, performSync is
\* called (it takes startTime and enters its try block) and the request is
\* answered.
StartSync(r) ==
    /\ phase[r] = "Saving"
    /\ emitted' = [emitted EXCEPT ![r] = Append(@, "sync-started")]
    /\ phase' = [phase EXCEPT ![r] = "Validating"]
    /\ response' = [response EXCEPT ![r] = 200]
    /\ UNCHANGED <<db, envVars, loopVars, pending, integration, auth, thrown,
                   elapsed, authCalls, fetchCalls>>

\* --------------------------------------------------------------- performSync

\* SyncFailure that drops the message of the error it caught.
SyncFailureWithoutCause(msg, ms) ==
    [ message |-> "Sync operation failed",
      error |-> Undefined,
      processingTime |-> ms ]

\* The object performSync throws from its catch block.
SyncFailure(msg, ms) ==
    [ message |-> "Sync operation failed",
      error |-> msg,
      processingTime |-> ms ]

\* Validate that goes on to the source query without authenticating.
ValidateSkipsAuth(r) ==
    /\ phase[r] = "Validating"
    /\ LET msg == validateIntegrationConfig(integration[r]) IN
         IF msg # Undefined
           THEN /\ phase' = [phase EXCEPT ![r] = "Failed"]
                /\ thrown' = [thrown EXCEPT ![r] = SyncFailure(msg, elapsed[r])]
                /\ UNCHANGED fetchCalls
           ELSE /\ phase' = [phase EXCEPT ![r] = "Fetching"]
                /\ fetchCalls' = [fetchCalls EXCEPT ![r] = @ + 1]
                /\ UNCHANGED thrown
    /\ UNCHANGED <<db, envVars, loopVars, pending, response, integration,
                   auth, authCalls, elapsed, emitted>>

\* validateIntegrationConfig, then both authenticate calls are started
\* (Promise.all).
Validate(r) ==
    /\ phase[r] = "Validating"
    /\ LET msg == validateIntegrationConfig(integration[r]) IN
         IF msg # Undefined
           THEN /\ phase' = [phase EXCEPT ![r] = "Failed"]
                /\ thrown' = [thrown EXCEPT ![r] = SyncFailure(msg, elapsed[r])]
                /\ UNCHANGED <<auth, authCalls>>
           ELSE /\ phase' = [phase EXCEPT ![r] = "Authenticating"]
                /\ auth' = [auth EXCEPT
                              ![r] = [source |-> "pending", target |-> "pending"]]
                /\ authCalls' = [authCalls EXCEPT ![r] = @ + 2]
                /\ UNCHANGED thrown
    /\ UNCHANGED <<db, envVars, loopVars, pending, response, integration,
                   elapsed, emitted, fetchCalls>>

Other(side) == IF side = "source" THEN "target" ELSE "source"
OrgOf(r, side) ==
    IF side = "source" THEN integration[r].sourceOrg
                       ELSE integration[r].targetOrg

\* Promise.all that fulfils with the first token (Promise.any).
AnyAuthenticated(r, side) == TRUE

\* Promise.all fulfils when the call that settles now was the last one
\* outstanding, that is, the other one has returned its token.
AllAuthenticated(r, side) == auth[r][Other(side)] = "ok"

\* One of the two authenticate calls settles after its delay(300).  The first
\* rejection rejects Promise.all and performSync fails; when both have
\* returned a token, querySourceData is called.
AuthReturns(r, side) ==
    /\ auth[r][side] = "pending"
    /\ LET msg == authenticate(OrgOf(r, side))
           waiting == phase[r] = "Authenticating"
       IN
         /\ auth' = [auth EXCEPT
                       ![r][side] = IF msg = Undefined THEN "ok" ELSE "failed"]
         /\ elapsed' = [elapsed EXCEPT ![r] = IF waiting THEN 300 ELSE @]
         /\ IF waiting /\ msg # Undefined
              THEN /\ phase' = [phase EXCEPT ![r] = "Failed"]
                   /\ thrown' = [thrown EXCEPT ![r] = SyncFailure(msg, 300)]
                   /\ UNCHANGED fetchCalls
            ELSE IF waiting /\ AllAuthenticated(r, side)
              THEN /\ phase' = [phase EXCEPT ![r] = "Fetching"]
                   /\ fetchCalls' = [fetchCalls EXCEPT ![r] = @ + 1]
                   /\ UNCHANGED thrown
            ELSE UNCHANGED <<phase, thrown, fetchCalls>>
    /\ UNCHANGED <<db, envVars, loopVars, pending, response, integration,
                   emitted, authCalls>>

\* querySourceData returns after its delay(500): the batches are cut, the
\* accumulator is created and the batch loop is entered.
FetchReturns(r) ==
    /\ phase[r] = "Fetching"
    /\ batches' = [batches EXCEPT ![r] = createBatches(sourceData, batchSize)]
    /\ results' = [results EXCEPT
                     ![r] = [NoResults EXCEPT !.totalRecords = Len(sourceData)]]
    /\ phase' = [phase EXCEPT ![r] = "ProcessingBatches"]
    /\ batchIndex' = [batchIndex EXCEPT ![r] = 1]
    /\ recordIndex' = [recordIndex EXCEPT ![r] = 1]
    /\ elapsed' = [elapsed EXCEPT ![r] = @ + 500]
    /\ UNCHANGED <<db, envVars, pending, response, integration, auth,
                   batchResult, pausing, pauses, thrown, emitted, authCalls,
                   fetchCalls, handed>>

\* detectConflicts: the number of conflicts found for a mapped record.
detectConflicts(record) == conflictPlan[record.Id].detected

\* resolution.resolvedConflicts of aiService.resolveConflicts.
resolvedConflicts(record) == conflictPlan[record.Id].resolved

\* syncToTarget: the message of the Error it throws, or Undefined.
syncToTarget(record) ==
    IF record.Id \in targetRejects
      THEN "Target system error"
      ELSE Undefined

\* The catch block of the record loop without results.errors.push.
RecordFailedSilently(br, record, msg) ==
    [br EXCEPT !.failed = @ + 1]

\* The catch block of the record loop of processBatch.
RecordFailed(br, record, msg) ==
    [br EXCEPT !.failed = @ + 1,
               !.errors = Append(@, [recordId |-> record.Id, error |-> msg])]

\* One turn of the record loop of processBatch for a record (an object):
\* the batch accumulator afterwards, whether the record was handed to
\* syncToTarget, and the milliseconds awaited.
processRecord(record, integ, br) ==
    LET found == detectConflicts(record) IN
    IF found > 0 /\ integ.syncSettings = NULL
      THEN [ result |-> RecordFailed(br, record,
                "Cannot read properties of undefined (reading 'conflictResolution')"),
             handed |-> FALSE,
             ms |-> 50 ]
    ELSE
      LET counted ==
              IF found > 0 /\ resolvedConflicts(record) > 0
                THEN [br EXCEPT !.conflicts = @ + found]
                ELSE br
          msg == syncToTarget(record)
      IN  [ result |-> IF msg # Undefined
                         THEN RecordFailed(counted, record, msg)
                         ELSE [counted EXCEPT !.successful = @ + 1],
            handed |-> TRUE,
            ms |-> 50 + (IF found > 0 THEN 300 ELSE 0) + 200 ]

\* MergeBatch without "results.failedRecords += batchResult.failed".
MergeBatchDropsFailed(res, batch, br) ==
    [res EXCEPT !.processedRecords = @ + Len(batch),
                !.successfulRecords = @ + br.successful,
                !.conflicts = @ + br.conflicts,
                !.errors = @ \o br.errors]

\* performSync after processBatch has returned batchResult.
MergeBatch(res, batch, br) ==
    [res EXCEPT !.processedRecords = @ + Len(batch),
                !.successfulRecords = @ + br.successful,
                !.failedRecords = @ + br.failed,
                !.conflicts = @ + br.conflicts,
                !.errors = @ \o br.errors]

\* BatchFailed that counts one failed record instead of batch.length.
BatchFailedCountsOne(res, i, batch, msg) ==
    [res EXCEPT !.failedRecords = @ + 1,
                !.errors = Append(@, [batch |-> i, error |-> msg,
                                      recordCount |-> Len(batch)])]

\* performSync when processBatch has thrown: catch (batchError); i is the
\* batch number the code reports (i + 1).
BatchFailed(res, i, batch, msg) ==
    [res EXCEPT !.failedRecords = @ + Len(batch),
                !.errors = Append(@, [batch |-> i, error |-> msg,
                                      recordCount |-> Len(batch)])]

\* NextBatch that leaves a batch out: i += 2.
NextBatchSkipsOne(r) ==
    /\ batchIndex' = [batchIndex EXCEPT ![r] = @ + 2]
    /\ recordIndex' = [recordIndex EXCEPT ![r] = 1]

\* NextBatch that attempts the same batch again: no i++.
NextBatchAgain(r) ==
    /\ batchIndex' = [batchIndex EXCEPT ![r] = @]
    /\ recordIndex' = [recordIndex EXCEPT ![r] = 1]

\* The loop of performSync goes on: i++.
NextBatch(r) ==
    /\ batchIndex' = [batchIndex EXCEPT ![r] = @ + 1]
    /\ recordIndex' = [recordIndex EXCEPT ![r] = 1]

\* results.successRate: (successfulRecords / totalRecords * 100).toFixed(2),
\* 0 without records.
successRate(res) ==
    IF res.totalRecords > 0
      THEN (2 * 10000 * res.successfulRecords + res.totalRecords)
             \div (2 * res.totalRecords)
      ELSE 0

\* processBatch handles its next element.  For a record, the turn of the
\* record loop; after the last record of the batch processBatch returns and
\* performSync adds the batch up, then pauses unless it was the last batch.
\* For null, applyFieldMappings throws, and so does the catch block of the
\* record loop at record.Id: processBatch rejects and the catch block of
\* the batch loop runs (no pause).
ProcessRecord(r) ==
    /\ phase[r] = "ProcessingBatches"
    /\ ~pausing[r]
    /\ batchIndex[r] <= Len(batches[r])
    /\ LET batch == batches[r][batchIndex[r]]
           record == batch[recordIndex[r]]
       IN
         IF record = NULL
           THEN /\ results' = [results EXCEPT
                     ![r] = BatchFailed(@, batchIndex[r], batch,
                              "Cannot read properties of null (reading 'Id')")]
                /\ batchResult' = [batchResult EXCEPT ![r] = NoBatchResult]
                /\ NextBatch(r)
                /\ UNCHANGED <<pausing, handed, elapsed>>
           ELSE
             LET out == processRecord(record, integration[r], batchResult[r])
             IN
               /\ handed' = [handed EXCEPT
                     ![r] = IF out.handed THEN Append(@, record.Id) ELSE @]
               /\ elapsed' = [elapsed EXCEPT ![r] = @ + out.ms]
               /\ IF recordIndex[r] < Len(batch)
                    THEN /\ batchResult' = [batchResult EXCEPT ![r] = out.result]
                         /\ recordIndex' = [recordIndex EXCEPT ![r] = @ + 1]
                         /\ UNCHANGED <<results, batchIndex, pausing>>
                    ELSE /\ results' = [results EXCEPT
                               ![r] = MergeBatch(@, batch, out.result)]
                         /\ batchResult' = [batchResult EXCEPT ![r] = NoBatchResult]
                         /\ IF batchIndex[r] < Len(batches[r])
                              THEN /\ pausing' = [pausing EXCEPT ![r] = TRUE]
                                   /\ UNCHANGED <<batchIndex, recordIndex>>
                              ELSE /\ NextBatch(r)
                                   /\ UNCHANGED pausing
    /\ UNCHANGED <<db, envVars, pending, phase, response, integration, auth,
                   batches, pauses, thrown, emitted, authCalls, fetchCalls>>

\* delay(200) between two batches is over: the loop goes on to the next batch.
PauseDone(r) ==
    /\ phase[r] = "ProcessingBatches"
    /\ pausing[r]
    /\ pausing' = [pausing EXCEPT ![r] = FALSE]
    /\ pauses' = [pauses EXCEPT ![r] = @ \cup {batchIndex[r]}]
    /\ elapsed' = [elapsed EXCEPT ![r] = @ + 200]
    /\ NextBatch(r)
    /\ UNCHANGED <<db, envVars, pending, phase, response, integration, auth,
                   batches, results, batchResult, thrown, emitted, authCalls,
                   fetchCalls, handed>>

\* The batch loop has ended: processingTime and successRate are set and the
\* results are returned.
FinishSync(r) ==
    /\ phase[r] = "ProcessingBatches"
    /\ batchIndex[r] > Len(batches[r])
    /\ results' = [results EXCEPT
                     ![r] = [results[r] EXCEPT
                               !.processingTime = elapsed[r],
                               !.successRate = successRate(results[r])]]
    /\ phase' = [phase EXCEPT ![r] = "Completed"]
    /\ UNCHANGED <<db, envVars, pending, response, integration, auth, batches,
                   batchIndex, recordIndex, batchResult, pausing, pauses,
                   thrown, elapsed, emitted, authCalls, fetchCalls, handed>>

\* The route callbacks if a failed run were reported as completed too.
DeliverBoth(r) ==
    /\ phase[r] \in {"Completed", "Failed"}
    /\ Len(emitted[r]) = 1
    /\ emitted' = [emitted EXCEPT
          ![r] = IF phase[r] = "Completed" THEN Append(@, "sync-completed")
                 ELSE @ \o <<"sync-completed", "sync-failed">>]
    /\ UNCHANGED <<db, envVars, loopVars, pending, phase, response,
                   integration, auth, thrown, elapsed, authCalls, fetchCalls>>

\* The .then / .catch callback of the route runs once performSync has
\* settled.
Deliver(r) ==
    /\ phase[r] \in {"Completed", "Failed"}
    /\ Len(emitted[r]) = 1
    /\ emitted' = [emitted EXCEPT
          ![r] = Append(@, IF phase[r] = "Completed" THEN "sync-completed"
                                                     ELSE "sync-failed")]
    /\ UNCHANGED <<db, envVars, loopVars, pending, phase, response,
                   integration, auth, thrown, elapsed, authCalls, fetchCalls>>

Next ==
    \E r \in Runs :
        \/ ReceiveSync(r) /\ UNCHANGED notSyncVars
        \/ StartSync(r) /\ UNCHANGED notSyncVars
        \/ Validate(r) /\ UNCHANGED notSyncVars
        \/ \E side \in {"source", "target"} :
               AuthReturns(r, side) /\ UNCHANGED notSyncVars
        \/ FetchReturns(r) /\ UNCHANGED notSyncVars
        \/ ProcessRecord(r) /\ UNCHANGED notSyncVars
        \/ PauseDone(r) /\ UNCHANGED notSyncVars
        \/ FinishSync(r) /\ UNCHANGED notSyncVars
        \/ Deliver(r) /\ UNCHANGED notSyncVars

Spec == Init /\ [][Next]_vars

\* What a run does once its request has been received: the continuations
\* of the route and of performSync. Each one is a promise reaction or a
\* timer of the event loop, which runs every continuation that is ready.
RunStep(r) ==
    \/ StartSync(r) /\ UNCHANGED notSyncVars
    \/ Validate(r) /\ UNCHANGED notSyncVars
    \/ \E side \in {"source", "target"} :
           AuthReturns(r, side) /\ UNCHANGED notSyncVars
    \/ FetchReturns(r) /\ UNCHANGED notSyncVars
    \/ ProcessRecord(r) /\ UNCHANGED notSyncVars
    \/ PauseDone(r) /\ UNCHANGED notSyncVars
    \/ FinishSync(r) /\ UNCHANGED notSyncVars
    \/ Deliver(r) /\ UNCHANGED notSyncVars

\* The sync route under the scheduling of the event loop: a run that can
\* go on does go on. Nothing is assumed about the arrival of requests.
FairSpec == Spec /\ \A r \in Runs : WF_vars(RunStep(r))

\* ------------------------------------------------------- webhook statistics

\* No manual sync is requested: the state of the sync route at rest.
SyncQuiet ==
    /\ db = GoodDocument
    /\ sourceData = <<>>
    /\ targetRejects = {}
    /\ conflictPlan = <<>>
    /\ pending = 0
    /\ phase = [r \in Runs |-> "Idle"]
    /\ response = [r \in Runs |-> 0]
    /\ integration = [r \in Runs |-> NULL]
    /\ auth = [r \in Runs |-> NoAuth]
    /\ batches = [r \in Runs |-> <<>>]
    /\ batchIndex = [r \in Runs |-> 0]
    /\ recordIndex = [r \in Runs |-> 0]
    /\ results = [r \in Runs |-> NoResults]
    /\ batchResult = [r \in Runs |-> NoBatchResult]
    /\ pausing = [r \in Runs |-> FALSE]
    /\ pauses = [r \in Runs |-> {}]
    /\ thrown = [r \in Runs |-> NULL]
    /\ elapsed = [r \in Runs |-> 0]
    /\ emitted = [r \in Runs |-> <<>>]
    /\ authCalls = [r \in Runs |-> 0]
    /\ fetchCalls = [r \in Runs |-> 0]
    /\ handed = [r \in Runs |-> <<>>]

StatsInit ==
    /\ SyncQuiet
    /\ StatsQuiet
    /\ MapperQuiet
    /\ ResolverQuiet
    /\ GeneratorQuiet
    /\ PipelineQuiet
    /\ SocketQuiet
    /\ BatcherQuiet

\* The status values processWebhookForIntegration reports.
Statuses == {"SUCCESS", "FAILED"}

\* status.toLowerCase() for the status values.
toLowerCase(status) ==
    CASE status = "SUCCESS" -> "success"
      [] status = "FAILED" -> "failed"

\* updateData of updateIntegrationStats: the counters its $inc names.
updateData(status) ==
    [ inc |-> { "totalSyncs", toLowerCase(status) \o "Syncs" } ]

\* What the store does with the $inc of an update: each named counter of the
\* schema grows by one (a path the schema does not have is dropped).
applyInc(stats, update) ==
    [ k \in DOMAIN stats |-> IF k \in update.inc THEN stats[k] + 1 ELSE stats[k] ]

\* POST /salesforce finds integration i and calls
\* processWebhookForIntegration with the document it has loaded.
WebhookArrives(t, i) ==
    /\ task[t].state = "idle"
    /\ task' = [task EXCEPT ![t] = [ state |-> "processing",
                                     integration |-> i,
                                     loaded |-> store[i] ]]
    /\ UNCHANGED store

\* The event handler of processWebhookForIntegration has returned
\* (SUCCESS) or thrown (FAILED), the log entry is updated and
\* updateIntegrationStats sends its update to the store.
HandlerSettles(t, status) ==
    /\ task[t].state = "processing"
    /\ task' = [task EXCEPT ![t] = [ state |-> "updating",
                                     integration |-> task[t].integration,
                                     loaded |-> task[t].loaded,
                                     status |-> status,
                                     update |-> updateData(status) ]]
    /\ UNCHANGED store

\* An update that writes back the counters of the loaded document,
\* incremented in memory.
UpdateFromLoaded(t) ==
    /\ task[t].state = "updating"
    /\ store' = [store EXCEPT ![task[t].integration] =
                    applyInc(task[t].loaded, task[t].update)]
    /\ task' = [task EXCEPT ![t].state = "done"]

\* Integration.findByIdAndUpdate(integrationId, updateData): the store
\* applies the $inc to the stored document in one step.
UpdateApplied(t) ==
    /\ task[t].state = "updating"
    /\ store' = [store EXCEPT ![task[t].integration] =
                    applyInc(@, task[t].update)]
    /\ task' = [task EXCEPT ![t].state = "done"]

StatsNext ==
    \E t \in WebhookTasks :
        \/ \E i \in IntegrationIds : WebhookArrives(t, i) /\ UNCHANGED notStatsVars
        \/ \E status \in Statuses :
               HandlerSettles(t, status) /\ UNCHANGED notStatsVars
        \/ UpdateApplied(t) /\ UNCHANGED notStatsVars

StatsSpec == StatsInit /\ [][StatsNext]_vars

\* ------------------------------------------------------------- field mapper

\* The transformers that call a string method on their argument: a value
\* that is no string makes them throw (phone.replace, email.toLowerCase and
\* name.trim are not functions).
formatPhone(phone) ==
    IF Falsy(phone) THEN phone
    ELSE IF ~IsString(phone) THEN Thrown
    ELSE LET cleaned == digitsOf(phone.s) IN
      IF Len(cleaned) = 10
        THEN Str(<<"(">> \o slice(cleaned, 0, 3) \o <<")", " ">>
                   \o slice(cleaned, 3, 6) \o <<"-">> \o slice(cleaned, 6, 10))
      ELSE IF Len(cleaned) = 11 /\ cleaned[1] = "1"
        THEN Str(<<"+", "1", " ", "(">> \o slice(cleaned, 1, 4) \o <<")", " ">>
                   \o slice(cleaned, 4, 7) \o <<"-">> \o slice(cleaned, 7, 11))
      ELSE phone

normalizeEmail(email) ==
    IF Falsy(email) THEN email
    ELSE IF ~IsString(email) THEN Thrown
    ELSE Str(trim(lowerCase(email.s)))

normalizeName(name) ==
    IF Falsy(name) THEN name
    ELSE IF ~IsString(name) THEN Thrown
    ELSE Str(collapseSpaces(trim(name.s)))

\* The switch of applyTransformation for the rules that are drawn.  (The
\* formatDate and formatCurrency rules are not drawn: Date and parseFloat
\* are outside the values modelled; neither can throw out of its
\* transformer.)
transformer(value, rule) ==
    CASE rule = "formatPhone(value)" -> formatPhone(value)
      [] rule = "normalizeEmail(value)" -> normalizeEmail(value)
      [] rule = "normalizeName(value)" -> normalizeName(value)
      [] OTHER -> value

\* applyTransformation whose catch block returns null.
applyTransformationNullOnError(value, rule) ==
    IF Falsy(value) THEN value
    ELSE IF transformer(value, rule) = Thrown THEN NULL
    ELSE transformer(value, rule)

\* applyTransformation: falsy values are returned as they are; the catch
\* block returns the original value.
applyTransformation(value, rule) ==
    IF Falsy(value) THEN value
    ELSE IF transformer(value, rule) = Thrown THEN value
    ELSE transformer(value, rule)

\* An assignment that keeps the value a field already has.
assignIfAbsent(record, field, value) ==
    [ f \in DOMAIN record \cup {field} |->
        IF f \in DOMAIN record THEN record[f] ELSE value ]

\* mappedRecord[mapping.targetField] = sourceValue
assign(record, field, value) ==
    [ f \in DOMAIN record \cup {field} |->
        IF f = field THEN value ELSE record[f] ]

\* One turn of the loop of applyFieldMappings: mappedRecord afterwards, or
\* Thrown.  Reading a field of null throws, and so does the catch block,
\* which reads it again; for an object nothing in the try block throws.
mapOne(record, sourceRecord, mapping) ==
    IF sourceRecord = NULL THEN Thrown
    ELSE
      LET sourceValue == sourceRecord[mapping.sourceField] IN
        IF mapping.transformationRule # Undefined /\ ~Nullish(sourceValue)
          THEN assign(record, mapping.targetField,
                      applyTransformation(sourceValue, mapping.transformationRule))
          ELSE assign(record, mapping.targetField, sourceValue)

\* applyFieldMappings as a function: the loop from mappedRecord = {} on; the
\* mapped record, or Thrown.
RECURSIVE mapAll(_, _, _)
mapAll(record, sourceRecord, fieldMappings) ==
    IF fieldMappings = <<>> THEN record
    ELSE LET out == mapOne(record, sourceRecord, Head(fieldMappings)) IN
           IF out = Thrown THEN Thrown
           ELSE mapAll(out, sourceRecord, Tail(fieldMappings))

applyFieldMappings(sourceRecord, fieldMappings) ==
    mapAll(NoFields, sourceRecord, fieldMappings)

\* The inputs: source records over two fields (JsUndefined: the field is
\* missing) and mapping lists over two target fields.
SourceFields == {"Name", "Phone"}
TargetFields == {"FullName", "Contact"}
NameValues ==
    { Str(<<" ", "A", "b", " ", " ", "C", " ">>), Str(<<>>), Num(7), NULL,
      JsUndefined }
PhoneValues ==
    { Str(<<"5", "5", "5", "-", "1", "2", "3", "-", "4", "5", "6", "7">>),
      Num(7), JsUndefined }
SourceRecords ==
    { [Name |-> n, Phone |-> q] : n \in NameValues, q \in PhoneValues }
      \cup {NULL}
Rules ==
    { Undefined, "formatPhone(value)", "normalizeEmail(value)",
      "normalizeName(value)", "directMapping(value)" }
Mappings ==
    [ sourceField : SourceFields, targetField : TargetFields,
      transformationRule : Rules ]

\* applyFieldMappings is called with a record and a mapping list.
MapperInit ==
    /\ SyncQuiet
    /\ StatsQuiet
    /\ ResolverQuiet
    /\ GeneratorQuiet
    /\ PipelineQuiet
    /\ SocketQuiet
    /\ BatcherQuiet
    /\ mapRecord \in SourceRecords
    /\ mapList \in SeqsUpTo(Mappings, MaxMappings)
    /\ mapIndex = 0
    /\ mapped = NoFields
    /\ mapState = "mapping"

\* for (const mapping of fieldMappings): the next mapping is handled.
MapNext ==
    /\ mapState = "mapping"
    /\ mapIndex < Len(mapList)
    /\ LET out == mapOne(mapped, mapRecord, mapList[mapIndex + 1]) IN
         IF out = Thrown
           THEN /\ mapState' = "threw"
                /\ UNCHANGED <<mapped, mapIndex>>
           ELSE /\ mapped' = out
                /\ mapIndex' = mapIndex + 1
                /\ UNCHANGED mapState
    /\ UNCHANGED <<mapRecord, mapList>>

\* return mappedRecord;
MapReturn ==
    /\ mapState = "mapping"
    /\ mapIndex = Len(mapList)
    /\ mapState' = "returned"
    /\ UNCHANGED <<mapRecord, mapList, mapIndex, mapped>>

MapperNext ==
    \/ MapNext /\ UNCHANGED notMapperVars
    \/ MapReturn /\ UNCHANGED notMapperVars

MapperSpec == MapperInit /\ [][MapperNext]_vars

\* -------------------------------------------------------- conflict resolver

\* a > b for numbers, null (0) and undefined (NaN: every comparison is
\* false).
gt(a, b) ==
    /\ a # JsUndefined
    /\ b # JsUndefined
    /\ (IF a = NULL THEN 0 ELSE a.n) > (IF b = NULL THEN 0 ELSE b.n)

\* a || b
or(a, b) == IF Falsy(a) THEN b ELSE a

\* conflictResolutionRules.dataTypes: the data types and, for each of them,
\* the methods.
KnownTypes == {"String", "Number", "Date", "Boolean"}
Methods == {"merge", "source_wins", "target_wins", "latest_wins"}

\* source_wins that returns the target.
source_wins_swapped(source, target) == target

source_wins(source, target) == source
target_wins(source, target) == target
latest_wins(source, target, sourceTime, targetTime) ==
    IF gt(sourceTime, targetTime) THEN source ELSE target

\* 'merge' of 'String': `${source} | ${target}` when both are truthy.
mergeString(source, target) ==
    IF ~Falsy(source) /\ ~Falsy(target)
      THEN Str(toText(source) \o <<" ", "|", " ">> \o toText(target))
      ELSE or(source, target)

\* 'merge' of 'Number': Math.max(source || 0, target || 0)
mergeNumber(source, target) ==
    LET a == or(source, Num(0))
        b == or(target, Num(0))
    IN  IF a.n >= b.n THEN a ELSE b

\* 'merge' of 'Date' and of 'Boolean'
mergeDate(source, target) == IF gt(source, target) THEN source ELSE target
mergeBoolean(source, target) == or(source, target)

\* dataTypes[dataType]?.[method] || dataTypes['String'][method]: the rule
\* found, or NULL when there is none (undefined).
resolutionMethod(dataType, method) ==
    IF method \notin Methods THEN NULL
    ELSE [ dataType |-> IF dataType \in KnownTypes THEN dataType ELSE "String",
           method |-> method ]

\* resolutionMethod(sourceValue, targetValue): the rule is called with two
\* arguments, so sourceTime and targetTime are undefined.
callRule(rule, source, target) ==
    CASE rule.method = "source_wins" -> source_wins(source, target)
      [] rule.method = "target_wins" -> target_wins(source, target)
      [] rule.method = "latest_wins" ->
            latest_wins(source, target, JsUndefined, JsUndefined)
      [] rule.method = "merge" /\ rule.dataType = "String" ->
            mergeString(source, target)
      [] rule.method = "merge" /\ rule.dataType = "Number" ->
            mergeNumber(source, target)
      [] rule.method = "merge" /\ rule.dataType = "Date" ->
            mergeDate(source, target)
      [] rule.method = "merge" /\ rule.dataType = "Boolean" ->
            mergeBoolean(source, target)

\* conflictResolutionRules.fieldPriority[field] || 'medium'
fieldPriority(field) ==
    CASE field \in {"Email", "Phone", "Name", "Amount", "CloseDate"} -> "high"
      [] field = "Notes" -> "low"
      [] OTHER -> "medium"

\* validateEmail: /^[^\s@]+@[^\s@]+\.[^\s@]+$/ on a string; a value that is
\* no string is falsy or has no "@" in its text.
validateEmail(email) ==
    /\ ~Falsy(email)
    /\ IsString(email)
    /\ LET s == email.s IN
         \E i \in 2..Len(s) :
             /\ s[i] = "@"
             /\ \A k \in 1..Len(s) : k # i => (~IsSpace(s[k]) /\ s[k] # "@")
             /\ \E j \in (i + 2)..(Len(s) - 1) : s[j] = "."

\* (value || '').length, and whether it is a number (a truthy value that
\* is no string has no length).
hasLength(value) == Falsy(value) \/ IsString(value)
lengthOf(value) == IF Falsy(value) THEN 0 ELSE Len(value.s)

\* field.includes(part) for the field names that are drawn: none of them
\* contains 'Email', 'Phone' or 'Name' without being it.
includes(field, part) == field = part

\* resolveHighPriorityField: the value, or Thrown.
resolveHighPriorityField(field, sourceValue, targetValue, dataType) ==
    LET sourceValid == validateEmail(sourceValue)
        targetValid == validateEmail(targetValue)
    IN
    IF includes(field, "Email") /\ sourceValid /\ ~targetValid
      THEN sourceValue
    ELSE IF includes(field, "Email") /\ ~sourceValid /\ targetValid
      THEN targetValue
    ELSE IF includes(field, "Email") /\ sourceValid /\ targetValid
      THEN IF Len(sourceValue.s) >= Len(targetValue.s)
             THEN sourceValue ELSE targetValue
    ELSE IF includes(field, "Phone")
      THEN IF ~hasLength(sourceValue) \/ ~hasLength(targetValue)
             THEN Thrown
             ELSE IF Len(digitsOf(or(sourceValue, Str(<<>>)).s))
                       >= Len(digitsOf(or(targetValue, Str(<<>>)).s))
                    THEN sourceValue ELSE targetValue
    ELSE IF includes(field, "Name")
      THEN IF hasLength(sourceValue) /\ hasLength(targetValue)
                /\ lengthOf(sourceValue) >= lengthOf(targetValue)
             THEN sourceValue ELSE targetValue
    ELSE sourceValue

\* strategy.replace('-', '_') for the strategy names that are drawn.
replaceDash(strategy) ==
    CASE strategy = "source-wins" -> "source_wins"
      [] strategy = "target-wins" -> "target_wins"
      [] strategy = "latest-wins" -> "latest_wins"
      [] strategy = "ai-resolve" -> "ai_resolve"
      [] OTHER -> strategy

\* The try block of resolveIndividualConflict: resolvedValue and confidence
\* (in hundredths), or Thrown.  Calling a method that does not exist throws.
tryResolve(conflict, dataType, strategy) ==
    IF strategy = "ai-resolve"
      THEN IF fieldPriority(conflict.field) = "high"
             THEN [ value |-> resolveHighPriorityField(conflict.field,
                        conflict.sourceValue, conflict.targetValue, dataType),
                    confidence |-> 90 ]
             ELSE [ value |-> callRule(resolutionMethod(dataType, "merge"),
                        conflict.sourceValue, conflict.targetValue),
                    confidence |-> 80 ]
      ELSE LET rule == resolutionMethod(dataType, replaceDash(strategy)) IN
             IF rule = NULL THEN Thrown
             ELSE [ value |-> callRule(rule, conflict.sourceValue,
                                       conflict.targetValue),
                    confidence |-> 70 ]

\* A variant whose catch block falls back to the target value.
resolveIndividualConflictFallsToTarget(conflict, strategy) ==
    LET dataType == IF conflict.dataType = Undefined THEN "String"
                                                     ELSE conflict.dataType
        out == tryResolve(conflict, dataType, strategy)
    IN  IF out = Thrown \/ out.value = Thrown
          THEN [ field |-> conflict.field,
                 sourceValue |-> conflict.sourceValue,
                 targetValue |-> conflict.targetValue,
                 resolvedValue |-> conflict.targetValue,
                 strategy |-> "fallback",
                 confidence |-> 50,
                 resolved |-> FALSE ]
          ELSE [ field |-> conflict.field,
                 sourceValue |-> conflict.sourceValue,
                 targetValue |-> conflict.targetValue,
                 resolvedValue |-> out.value,
                 strategy |-> strategy,
                 confidence |-> out.confidence,
                 resolved |-> TRUE ]

\* resolveIndividualConflict for a conflict that is an object: the
\* resolution.  dataType defaults to 'String'.
resolveIndividualConflict(conflict, strategy) ==
    LET dataType == IF conflict.dataType = Undefined THEN "String"
                                                     ELSE conflict.dataType
        out == tryResolve(conflict, dataType, strategy)
    IN  IF out = Thrown \/ out.value = Thrown
          THEN [ field |-> conflict.field,
                 sourceValue |-> conflict.sourceValue,
                 targetValue |-> conflict.targetValue,
                 resolvedValue |-> conflict.sourceValue,
                 strategy |-> "fallback",
                 confidence |-> 50,
                 resolved |-> FALSE ]
          ELSE [ field |-> conflict.field,
                 sourceValue |-> conflict.sourceValue,
                 targetValue |-> conflict.targetValue,
                 resolvedValue |-> out.value,
                 strategy |-> strategy,
                 confidence |-> out.confidence,
                 resolved |-> TRUE ]

\* calculateOverallConfidence, in hundredths: Math.round of the mean.
RECURSIVE sumConfidence(_)
sumConfidence(resolutions) ==
    IF resolutions = <<>> THEN 0
    ELSE Head(resolutions).confidence + sumConfidence(Tail(resolutions))

calculateOverallConfidence(resolutions) ==
    IF Len(resolutions) = 0 THEN 0
    ELSE (2 * sumConfidence(resolutions) + Len(resolutions))
           \div (2 * Len(resolutions))

\* resolutionStrategy = 'ai-resolve' when none is passed.
strategyOrDefault(strategy) ==
    IF strategy = Undefined THEN "ai-resolve" ELSE strategy

\* The inputs.  The values of a conflict are of its data type (an unknown
\* or missing data type comes with strings); a date is its time value.
StringValues ==
    { Str(<<"a", "@", "b", ".", "c">>), Str(<<"a", "b", "@", "c", ".", "d">>),
      Str(<<"x", "1">>), Str(<<>>), NULL, JsUndefined }
NumberValues == { Num(0), Num(3), Num(9), NULL }
DateValues == { Num(3), Num(9), NULL }
BooleanValues == { Bool(TRUE), Bool(FALSE), NULL }
ValuesOf(dataType) ==
    CASE dataType = "Number" -> NumberValues
      [] dataType = "Date" -> DateValues
      [] dataType = "Boolean" -> BooleanValues
      [] OTHER -> StringValues
Fields == {"Email", "Phone", "Name", "Amount", "Notes"}
DataTypes == KnownTypes \cup {"Object", Undefined}
Conflicts ==
    UNION { [ field : Fields, sourceValue : ValuesOf(d),
              targetValue : ValuesOf(d), dataType : {d} ] : d \in DataTypes }
Strategies ==
    { Undefined, "ai-resolve", "source-wins", "target-wins", "latest-wins",
      "merge", "manual" }

\* The conflicts that longer lists are made of; null is an element that is
\* no conflict.
FewConflicts ==
    { [ field |-> "Email", sourceValue |-> Str(<<"a", "@", "b", ".", "c">>),
        targetValue |-> Str(<<"x", "1">>), dataType |-> "String" ],
      [ field |-> "Phone", sourceValue |-> Num(3), targetValue |-> Num(9),
        dataType |-> "Number" ],
      [ field |-> "Notes", sourceValue |-> NULL,
        targetValue |-> Str(<<"x", "1">>), dataType |-> "String" ],
      NULL }

\* resolveConflicts is called with a conflict list and a strategy.
ResolverInit ==
    /\ SyncQuiet
    /\ StatsQuiet
    /\ MapperQuiet
    /\ GeneratorQuiet
    /\ PipelineQuiet
    /\ SocketQuiet
    /\ BatcherQuiet
    /\ rcConflicts \in { <<c>> : c \in Conflicts }
                         \cup SeqsUpTo(FewConflicts, MaxConflicts)
    /\ rcStrategy \in Strategies
    /\ rcResolutions = <<>>
    /\ rcBatch = NULL

\* for (const conflict of conflicts): the next conflict is resolved.  An
\* element that is null makes resolveIndividualConflict throw outside its
\* try block, and resolveConflicts returns from its catch block.
ResolveNext ==
    /\ rcBatch = NULL
    /\ Len(rcResolutions) < Len(rcConflicts)
    /\ LET conflict == rcConflicts[Len(rcResolutions) + 1] IN
         IF conflict = NULL
           THEN /\ rcBatch' = [ strategy |-> "fallback",
                                totalConflicts |-> Len(rcConflicts),
                                resolvedConflicts |-> 0,
                                resolutions |-> <<>>,
                                confidence |-> 0 ]
                /\ UNCHANGED rcResolutions
           ELSE /\ rcResolutions' = Append(rcResolutions,
                      resolveIndividualConflict(conflict,
                                                strategyOrDefault(rcStrategy)))
                /\ UNCHANGED rcBatch
    /\ UNCHANGED <<rcConflicts, rcStrategy>>

\* A variant that counts every resolution as resolved.
ResolveReturnCountsAll ==
    /\ rcBatch = NULL
    /\ Len(rcResolutions) = Len(rcConflicts)
    /\ rcBatch' =
         [ strategy |-> strategyOrDefault(rcStrategy),
           totalConflicts |-> Len(rcConflicts),
           resolvedConflicts |-> Len(rcResolutions),
           resolutions |-> rcResolutions,
           confidence |-> calculateOverallConfidence(rcResolutions) ]
    /\ UNCHANGED <<rcConflicts, rcStrategy, rcResolutions>>

\* The loop has ended: resolveConflicts returns.
ResolveReturn ==
    /\ rcBatch = NULL
    /\ Len(rcResolutions) = Len(rcConflicts)
    /\ rcBatch' =
         [ strategy |-> strategyOrDefault(rcStrategy),
           totalConflicts |-> Len(rcConflicts),
           resolvedConflicts |->
               Cardinality({ k \in 1..Len(rcResolutions) :
                               rcResolutions[k].resolved }),
           resolutions |-> rcResolutions,
           confidence |-> calculateOverallConfidence(rcResolutions) ]
    /\ UNCHANGED <<rcConflicts, rcStrategy, rcResolutions>>

ResolverNext ==
    \/ ResolveNext /\ UNCHANGED notResolverVars
    \/ ResolveReturn /\ UNCHANGED notResolverVars

ResolverSpec == ResolverInit /\ [][ResolverNext]_vars

\* ----------------------------------------------------- mapping generator

\* The names of the rule tables.  A name is the sequence of its
\* characters, so that the string methods are computed on it: words.Name
\* is 'Name'.
words ==
    [
      Name |-> <<"N", "a", "m", "e">>,
      AccountName |->
          <<"A", "c", "c", "o", "u",
            "n", "t", "N", "a", "m", "e">>,
      Company |-> <<"C", "o", "m", "p", "a", "n", "y">>,
      CompanyName |->
          <<"C", "o", "m", "p", "a",
            "n", "y", "N", "a", "m", "e">>,
      Phone |-> <<"P", "h", "o", "n", "e">>,
      PhoneNumber |->
          <<"P", "h", "o", "n", "e",
            "N", "u", "m", "b", "e", "r">>,
      MainPhone |-> <<"M", "a", "i", "n", "P", "h", "o", "n", "e">>,
      CompanyPhone |->
          <<"C", "o", "m", "p", "a", "n",
            "y", "P", "h", "o", "n", "e">>,
      Email |-> <<"E", "m", "a", "i", "l">>,
      EmailAddress |->
          <<"E", "m", "a", "i", "l", "A",
            "d", "d", "r", "e", "s", "s">>,
      PrimaryEmail |->
          <<"P", "r", "i", "m", "a", "r",
            "y", "E", "m", "a", "i", "l">>,
      Website |-> <<"W", "e", "b", "s", "i", "t", "e">>,
      WebsiteURL |-> <<"W", "e", "b", "s", "i", "t", "e", "U", "R", "L">>,
      CompanyWebsite |->
          <<"C", "o", "m", "p", "a", "n", "y",
            "W", "e", "b", "s", "i", "t", "e">>,
      Industry |-> <<"I", "n", "d", "u", "s", "t", "r", "y">>,
      IndustryType |->
          <<"I", "n", "d", "u", "s", "t",
            "r", "y", "T", "y", "p", "e">>,
      BusinessType |->
          <<"B", "u", "s", "i", "n", "e",
            "s", "s", "T", "y", "p", "e">>,
      BillingStreet |->
          <<"B", "i", "l", "l", "i", "n",
            "g", "S", "t", "r", "e", "e", "t">>,
      Street |-> <<"S", "t", "r", "e", "e", "t">>,
      Address1 |-> <<"A", "d", "d", "r", "e", "s", "s", "1">>,
      AddressLine1 |->
          <<"A", "d", "d", "r", "e", "s",
            "s", "L", "i", "n", "e", "1">>,
      BillingCity |->
          <<"B", "i", "l", "l", "i",
            "n", "g", "C", "i", "t", "y">>,
      City |-> <<"C", "i", "t", "y">>,
      Location |-> <<"L", "o", "c", "a", "t", "i", "o", "n">>,
      BillingState |->
          <<"B", "i", "l", "l", "i", "n",
            "g", "S", "t", "a", "t", "e">>,
      State |-> <<"S", "t", "a", "t", "e">>,
      StateProvince |->
          <<"S", "t", "a", "t", "e", "P",
            "r", "o", "v", "i", "n", "c", "e">>,
      BillingPostalCode |->
          <<"B", "i", "l", "l", "i", "n", "g", "P",
            "o", "s", "t", "a", "l", "C", "o", "d", "e">>,
      PostalCode |-> <<"P", "o", "s", "t", "a", "l", "C", "o", "d", "e">>,
      ZipCode |-> <<"Z", "i", "p", "C", "o", "d", "e">>,
      Zip |-> <<"Z", "i", "p">>,
      BillingCountry |->
          <<"B", "i", "l", "l", "i", "n", "g",
            "C", "o", "u", "n", "t", "r", "y">>,
      Country |-> <<"C", "o", "u", "n", "t", "r", "y">>,
      AnnualRevenue |->
          <<"A", "n", "n", "u", "a", "l",
            "R", "e", "v", "e", "n", "u", "e">>,
      Revenue |-> <<"R", "e", "v", "e", "n", "u", "e">>,
      YearlyRevenue |->
          <<"Y", "e", "a", "r", "l", "y",
            "R", "e", "v", "e", "n", "u", "e">>,
      NumberOfEmployees |->
          <<"N", "u", "m", "b", "e", "r", "O", "f",
            "E", "m", "p", "l", "o", "y", "e", "e", "s">>,
      EmployeeCount |->
          <<"E", "m", "p", "l", "o", "y",
            "e", "e", "C", "o", "u", "n", "t">>,
      StaffSize |-> <<"S", "t", "a", "f", "f", "S", "i", "z", "e">>,
      FirstName |-> <<"F", "i", "r", "s", "t", "N", "a", "m", "e">>,
      FName |-> <<"F", "N", "a", "m", "e">>,
      GivenName |-> <<"G", "i", "v", "e", "n", "N", "a", "m", "e">>,
      LastName |-> <<"L", "a", "s", "t", "N", "a", "m", "e">>,
      LName |-> <<"L", "N", "a", "m", "e">>,
      Surname |-> <<"S", "u", "r", "n", "a", "m", "e">>,
      FamilyName |-> <<"F", "a", "m", "i", "l", "y", "N", "a", "m", "e">>,
      WorkEmail |-> <<"W", "o", "r", "k", "E", "m", "a", "i", "l">>,
      WorkPhone |-> <<"W", "o", "r", "k", "P", "h", "o", "n", "e">>,
      BusinessPhone |->
          <<"B", "u", "s", "i", "n", "e",
            "s", "s", "P", "h", "o", "n", "e">>,
      MobilePhone |->
          <<"M", "o", "b", "i", "l",
            "e", "P", "h", "o", "n", "e">>,
      Mobile |-> <<"M", "o", "b", "i", "l", "e">>,
      CellPhone |-> <<"C", "e", "l", "l", "P", "h", "o", "n", "e">>,
      PersonalPhone |->
          <<"P", "e", "r", "s", "o", "n",
            "a", "l", "P", "h", "o", "n", "e">>,
      Title |-> <<"T", "i", "t", "l", "e">>,
      JobTitle |-> <<"J", "o", "b", "T", "i", "t", "l", "e">>,
      Position |-> <<"P", "o", "s", "i", "t", "i", "o", "n">>,
      Role |-> <<"R", "o", "l", "e">>,
      Department |-> <<"D", "e", "p", "a", "r", "t", "m", "e", "n", "t">>,
      Dept |-> <<"D", "e", "p", "t">>,
      Division |-> <<"D", "i", "v", "i", "s", "i", "o", "n">>,
      MailingStreet |->
          <<"M", "a", "i", "l", "i", "n",
            "g", "S", "t", "r", "e", "e", "t">>,
      MailingCity |->
          <<"M", "a", "i", "l", "i",
            "n", "g", "C", "i", "t", "y">>,
      MailingState |->
          <<"M", "a", "i", "l", "i", "n",
            "g", "S", "t", "a", "t", "e">>,
      MailingPostalCode |->
          <<"M", "a", "i", "l", "i", "n", "g", "P",
            "o", "s", "t", "a", "l", "C", "o", "d", "e">>,
      MailingCountry |->
          <<"M", "a", "i", "l", "i", "n", "g",
            "C", "o", "u", "n", "t", "r", "y">>,
      ContactEmail |->
          <<"C", "o", "n", "t", "a", "c",
            "t", "E", "m", "a", "i", "l">>,
      ContactPhone |->
          <<"C", "o", "n", "t", "a", "c",
            "t", "P", "h", "o", "n", "e">>,
      Organization |->
          <<"O", "r", "g", "a", "n", "i",
            "z", "a", "t", "i", "o", "n">>,
      Status |-> <<"S", "t", "a", "t", "u", "s">>,
      LeadStatus |-> <<"L", "e", "a", "d", "S", "t", "a", "t", "u", "s">>,
      Stage |-> <<"S", "t", "a", "g", "e">>,
      Rating |-> <<"R", "a", "t", "i", "n", "g">>,
      Priority |-> <<"P", "r", "i", "o", "r", "i", "t", "y">>,
      Score |-> <<"S", "c", "o", "r", "e">>,
      LeadSource |-> <<"L", "e", "a", "d", "S", "o", "u", "r", "c", "e">>,
      Source |-> <<"S", "o", "u", "r", "c", "e">>,
      Origin |-> <<"O", "r", "i", "g", "i", "n">>,
      OpportunityName |->
          <<"O", "p", "p", "o", "r", "t", "u",
            "n", "i", "t", "y", "N", "a", "m", "e">>,
      DealName |-> <<"D", "e", "a", "l", "N", "a", "m", "e">>,
      Amount |-> <<"A", "m", "o", "u", "n", "t">>,
      Value |-> <<"V", "a", "l", "u", "e">>,
      DealValue |-> <<"D", "e", "a", "l", "V", "a", "l", "u", "e">>,
      CloseDate |-> <<"C", "l", "o", "s", "e", "D", "a", "t", "e">>,
      ExpectedCloseDate |->
          <<"E", "x", "p", "e", "c", "t", "e", "d",
            "C", "l", "o", "s", "e", "D", "a", "t", "e">>,
      TargetDate |-> <<"T", "a", "r", "g", "e", "t", "D", "a", "t", "e">>,
      StageName |-> <<"S", "t", "a", "g", "e", "N", "a", "m", "e">>,
      Probability |->
          <<"P", "r", "o", "b", "a",
            "b", "i", "l", "i", "t", "y">>,
      WinProbability |->
          <<"W", "i", "n", "P", "r", "o", "b",
            "a", "b", "i", "l", "i", "t", "y">>,
      Likelihood |-> <<"L", "i", "k", "e", "l", "i", "h", "o", "o", "d">>,
      Type |-> <<"T", "y", "p", "e">>,
      OpportunityType |->
          <<"O", "p", "p", "o", "r", "t", "u",
            "n", "i", "t", "y", "T", "y", "p", "e">>,
      DealType |-> <<"D", "e", "a", "l", "T", "y", "p", "e">>,
      Description |->
          <<"D", "e", "s", "c", "r",
            "i", "p", "t", "i", "o", "n">>,
      Notes |-> <<"N", "o", "t", "e", "s">>,
      Details |-> <<"D", "e", "t", "a", "i", "l", "s">>,
      NextStep |-> <<"N", "e", "x", "t", "S", "t", "e", "p">>,
      NextAction |-> <<"N", "e", "x", "t", "A", "c", "t", "i", "o", "n">>,
      FollowUp |-> <<"F", "o", "l", "l", "o", "w", "U", "p">>,
      Subject |-> <<"S", "u", "b", "j", "e", "c", "t">>,
      Summary |-> <<"S", "u", "m", "m", "a", "r", "y">>,
      Issue |-> <<"I", "s", "s", "u", "e">>,
      CaseStatus |-> <<"C", "a", "s", "e", "S", "t", "a", "t", "u", "s">>,
      Urgency |-> <<"U", "r", "g", "e", "n", "c", "y">>,
      Severity |-> <<"S", "e", "v", "e", "r", "i", "t", "y">>,
      Channel |-> <<"C", "h", "a", "n", "n", "e", "l">>,
      CaseType |-> <<"C", "a", "s", "e", "T", "y", "p", "e">>,
      Category |-> <<"C", "a", "t", "e", "g", "o", "r", "y">>,
      Reason |-> <<"R", "e", "a", "s", "o", "n">>,
      CaseReason |-> <<"C", "a", "s", "e", "R", "e", "a", "s", "o", "n">>,
      IssueType |-> <<"I", "s", "s", "u", "e", "T", "y", "p", "e">> ]

\* initializeFieldMappingRules: per object type its fields, in the order
\* of Object.entries, each with its possible matches.
rulesOfAccount ==
    <<
      [ field |-> words.Name,
        possibleMatches |-> <<words.Name, words.AccountName, words.Company,
                              words.CompanyName>> ],
      [ field |-> words.Phone,
        possibleMatches |-> <<words.Phone, words.PhoneNumber, words.MainPhone,
                              words.CompanyPhone>> ],
      [ field |-> words.Email,
        possibleMatches |-> <<words.Email, words.EmailAddress,
                              words.PrimaryEmail>> ],
      [ field |-> words.Website,
        possibleMatches |-> <<words.Website, words.WebsiteURL,
                              words.CompanyWebsite>> ],
      [ field |-> words.Industry,
        possibleMatches |-> <<words.Industry, words.IndustryType,
                              words.BusinessType>> ],
      [ field |-> words.BillingStreet,
        possibleMatches |-> <<words.BillingStreet, words.Street,
                              words.Address1, words.AddressLine1>> ],
      [ field |-> words.BillingCity,
        possibleMatches |-> <<words.BillingCity, words.City,
                              words.Location>> ],
      [ field |-> words.BillingState,
        possibleMatches |-> <<words.BillingState, words.State,
                              words.StateProvince>> ],
      [ field |-> words.BillingPostalCode,
        possibleMatches |-> <<words.BillingPostalCode, words.PostalCode,
                              words.ZipCode, words.Zip>> ],
      [ field |-> words.BillingCountry,
        possibleMatches |-> <<words.BillingCountry, words.Country>> ],
      [ field |-> words.AnnualRevenue,
        possibleMatches |-> <<words.AnnualRevenue, words.Revenue,
                              words.YearlyRevenue>> ],
      [ field |-> words.NumberOfEmployees,
        possibleMatches |-> <<words.NumberOfEmployees, words.EmployeeCount,
                              words.StaffSize>> ] >>

rulesOfContact ==
    <<
      [ field |-> words.FirstName,
        possibleMatches |-> <<words.FirstName, words.FName,
                              words.GivenName>> ],
      [ field |-> words.LastName,
        possibleMatches |-> <<words.LastName, words.LName, words.Surname,
                              words.FamilyName>> ],
      [ field |-> words.Email,
        possibleMatches |-> <<words.Email, words.EmailAddress,
                              words.PrimaryEmail, words.WorkEmail>> ],
      [ field |-> words.Phone,
        possibleMatches |-> <<words.Phone, words.PhoneNumber, words.WorkPhone,
                              words.BusinessPhone>> ],
      [ field |-> words.MobilePhone,
        possibleMatches |-> <<words.MobilePhone, words.Mobile,
                              words.CellPhone, words.PersonalPhone>> ],
      [ field |-> words.Title,
        possibleMatches |-> <<words.Title, words.JobTitle, words.Position,
                              words.Role>> ],
      [ field |-> words.Department,
        possibleMatches |-> <<words.Department, words.Dept,
                              words.Division>> ],
      [ field |-> words.MailingStreet,
        possibleMatches |-> <<words.MailingStreet, words.Street,
                              words.Address1>> ],
      [ field |-> words.MailingCity,
        possibleMatches |-> <<words.MailingCity, words.City>> ],
      [ field |-> words.MailingState,
        possibleMatches |-> <<words.MailingState, words.State>> ],
      [ field |-> words.MailingPostalCode,
        possibleMatches |-> <<words.MailingPostalCode, words.PostalCode,
                              words.ZipCode>> ],
      [ field |-> words.MailingCountry,
        possibleMatches |-> <<words.MailingCountry, words.Country>> ] >>

rulesOfLead ==
    <<
      [ field |-> words.FirstName,
        possibleMatches |-> <<words.FirstName, words.FName,
                              words.GivenName>> ],
      [ field |-> words.LastName,
        possibleMatches |-> <<words.LastName, words.LName, words.Surname>> ],
      [ field |-> words.Email,
        possibleMatches |-> <<words.Email, words.EmailAddress,
                              words.ContactEmail>> ],
      [ field |-> words.Phone,
        possibleMatches |-> <<words.Phone, words.PhoneNumber,
                              words.ContactPhone>> ],
      [ field |-> words.Company,
        possibleMatches |-> <<words.Company, words.CompanyName,
                              words.Organization>> ],
      [ field |-> words.Title,
        possibleMatches |-> <<words.Title, words.JobTitle, words.Position>> ],
      [ field |-> words.Industry,
        possibleMatches |-> <<words.Industry, words.IndustryType>> ],
      [ field |-> words.Status,
        possibleMatches |-> <<words.Status, words.LeadStatus, words.Stage>> ],
      [ field |-> words.Rating,
        possibleMatches |-> <<words.Rating, words.Priority, words.Score>> ],
      [ field |-> words.LeadSource,
        possibleMatches |-> <<words.LeadSource, words.Source,
                              words.Origin>> ],
      [ field |-> words.Street,
        possibleMatches |-> <<words.Street, words.Address1,
                              words.AddressLine1>> ],
      [ field |-> words.City,
        possibleMatches |-> <<words.City, words.Location>> ],
      [ field |-> words.State,
        possibleMatches |-> <<words.State, words.StateProvince>> ],
      [ field |-> words.PostalCode,
        possibleMatches |-> <<words.PostalCode, words.ZipCode, words.Zip>> ],
      [ field |-> words.Country,
        possibleMatches |-> <<words.Country>> ] >>

rulesOfOpportunity ==
    <<
      [ field |-> words.Name,
        possibleMatches |-> <<words.Name, words.OpportunityName,
                              words.DealName>> ],
      [ field |-> words.Amount,
        possibleMatches |-> <<words.Amount, words.Value, words.DealValue,
                              words.Revenue>> ],
      [ field |-> words.CloseDate,
        possibleMatches |-> <<words.CloseDate, words.ExpectedCloseDate,
                              words.TargetDate>> ],
      [ field |-> words.StageName,
        possibleMatches |-> <<words.StageName, words.Stage, words.Status>> ],
      [ field |-> words.Probability,
        possibleMatches |-> <<words.Probability, words.WinProbability,
                              words.Likelihood>> ],
      [ field |-> words.Type,
        possibleMatches |-> <<words.Type, words.OpportunityType,
                              words.DealType>> ],
      [ field |-> words.LeadSource,
        possibleMatches |-> <<words.LeadSource, words.Source,
                              words.Origin>> ],
      [ field |-> words.Description,
        possibleMatches |-> <<words.Description, words.Notes,
                              words.Details>> ],
      [ field |-> words.NextStep,
        possibleMatches |-> <<words.NextStep, words.NextAction,
                              words.FollowUp>> ] >>

rulesOfCase ==
    <<
      [ field |-> words.Subject,
        possibleMatches |-> <<words.Subject, words.Title, words.Summary>> ],
      [ field |-> words.Description,
        possibleMatches |-> <<words.Description, words.Details,
                              words.Issue>> ],
      [ field |-> words.Status,
        possibleMatches |-> <<words.Status, words.CaseStatus, words.State>> ],
      [ field |-> words.Priority,
        possibleMatches |-> <<words.Priority, words.Urgency,
                              words.Severity>> ],
      [ field |-> words.Origin,
        possibleMatches |-> <<words.Origin, words.Source, words.Channel>> ],
      [ field |-> words.Type,
        possibleMatches |-> <<words.Type, words.CaseType, words.Category>> ],
      [ field |-> words.Reason,
        possibleMatches |-> <<words.Reason, words.CaseReason,
                              words.IssueType>> ] >>

\* this.fieldMappingRules[objectType] || {}
fieldMappingRules(objectType) ==
    CASE objectType = "Account" -> rulesOfAccount
      [] objectType = "Contact" -> rulesOfContact
      [] objectType = "Lead" -> rulesOfLead
      [] objectType = "Opportunity" -> rulesOfOpportunity
      [] objectType = "Case" -> rulesOfCase
      [] OTHER -> <<>>

\* commonMappings of generateCrossObjectMappings; aiConfidence in
\* thousandths.
commonLeadToContact ==
    <<
      [ sourceField |-> words.FirstName, targetField |-> words.FirstName,
          aiConfidence |-> 1000 ],
      [ sourceField |-> words.LastName, targetField |-> words.LastName,
          aiConfidence |-> 1000 ],
      [ sourceField |-> words.Email, targetField |-> words.Email,
          aiConfidence |-> 1000 ],
      [ sourceField |-> words.Phone, targetField |-> words.Phone,
          aiConfidence |-> 1000 ],
      [ sourceField |-> words.Title, targetField |-> words.Title, aiConfidence |-> 900 ] >>

commonLeadToAccount ==
    <<
      [ sourceField |-> words.Company, targetField |-> words.Name,
          aiConfidence |-> 950 ],
      [ sourceField |-> words.Phone, targetField |-> words.Phone, aiConfidence |-> 900 ],
      [ sourceField |-> words.Industry, targetField |-> words.Industry,
          aiConfidence |-> 1000 ] >>

commonContactToLead ==
    <<
      [ sourceField |-> words.FirstName, targetField |-> words.FirstName,
          aiConfidence |-> 1000 ],
      [ sourceField |-> words.LastName, targetField |-> words.LastName,
          aiConfidence |-> 1000 ],
      [ sourceField |-> words.Email, targetField |-> words.Email,
          aiConfidence |-> 1000 ],
      [ sourceField |-> words.Phone, targetField |-> words.Phone,
          aiConfidence |-> 1000 ] >>

commonMappings(key) ==
    CASE key = <<"Lead", "Contact">> -> commonLeadToContact
      [] key = <<"Lead", "Account">> -> commonLeadToAccount
      [] key = <<"Contact", "Lead">> -> commonContactToLead
      [] OTHER -> <<>>

\* String.prototype.includes on names.
includesString(s, part) ==
    \E i \in 0..(Len(s) - Len(part)) : SubSeq(s, i + 1, i + Len(part)) = part

Max(a, b) == IF a > b THEN a ELSE b

\* calculateLevenshteinDistance: the matrix is filled row by row; a row is
\* the sequence of its cells, cell j at position j + 1.  The inner loop:
\* row i, begun with cell 0 = i, gets its next cell until it is full.
RECURSIVE levenshteinRow(_, _, _, _, _)
levenshteinRow(above, row, i, str1, str2) ==
    IF Len(row) = Len(str1) + 1 THEN row
    ELSE LET j == Len(row)
             cell == IF str2[i] = str1[j]
                       THEN above[j]
                       ELSE Min(above[j], Min(row[j], above[j + 1])) + 1
         IN  levenshteinRow(above, Append(row, cell), i, str1, str2)

\* The outer loop: row i = matrix.length is added until the matrix has
\* its str2.length + 1 rows.
RECURSIVE levenshteinMatrix(_, _, _)
levenshteinMatrix(matrix, str1, str2) ==
    IF Len(matrix) = Len(str2) + 1 THEN matrix
    ELSE levenshteinMatrix(
             Append(matrix,
                    levenshteinRow(matrix[Len(matrix)], <<Len(matrix)>>,
                                   Len(matrix), str1, str2)),
             str1, str2)

\* Row 0 is 0, 1, ..., str1.length; matrix[str2.length][str1.length] is
\* returned.
calculateLevenshteinDistance(str1, str2) ==
    levenshteinMatrix(<< [j \in 1..(Len(str1) + 1) |-> j - 1] >>, str1, str2)
        [Len(str2) + 1][Len(str1) + 1]

\* sourcePossibleMatches.some(match => match.toLowerCase() === name)
someMatch(possibleMatches, name) ==
    \E k \in 1..Len(possibleMatches) : lowerCase(possibleMatches[k]) = name

\* calculateFieldSimilarity, in thousandths: Math.round(confidence * 100)
\* is the nearest hundredth, a half rounded up.
calculateFieldSimilarity(sourceField, targetField, sourcePossibleMatches, targetPossibleMatches) ==
    LET source == lowerCase(sourceField)
        target == lowerCase(targetField)
        maxLength == Max(Len(sourceField), Len(targetField))
        distance == calculateLevenshteinDistance(source, target)
    IN  IF source = target THEN 1000
        ELSE IF someMatch(sourcePossibleMatches, target) THEN 950
        ELSE IF someMatch(targetPossibleMatches, source) THEN 950
        ELSE IF includesString(source, target)
                  \/ includesString(target, source) THEN 800
        ELSE 10 * ((200 * Max(0, maxLength - distance) + maxLength)
                      \div (2 * maxLength))

\* The inner loop of generateFieldMappings for one source field: the
\* entries pushed, one per target field that scores above 0.7.
aboveThreshold(entry) == entry.aiConfidence > 700
matchesFor(sourceEntry, targetMappings) ==
    SelectSeq([ k \in 1..Len(targetMappings) |->
                  [ sourceField |-> sourceEntry.field,
                    targetField |-> targetMappings[k].field,
                    aiConfidence |-> calculateFieldSimilarity(
                        sourceEntry.field, targetMappings[k].field,
                        sourceEntry.possibleMatches,
                        targetMappings[k].possibleMatches) ] ],
              aboveThreshold)

\* generateCrossObjectMappings: the entries of the key, or those of the
\* reverse key with the fields swapped and nine tenths of the confidence.
generateCrossObjectMappings(sourceObjectType, targetObjectType) ==
    LET mappingKey == <<sourceObjectType, targetObjectType>>
        reverseMappingKey == <<targetObjectType, sourceObjectType>>
        reversed == commonMappings(reverseMappingKey)
    IN  IF commonMappings(mappingKey) # <<>>
          THEN commonMappings(mappingKey)
        ELSE [ k \in 1..Len(reversed) |->
                 [ sourceField |-> reversed[k].targetField,
                   targetField |-> reversed[k].sourceField,
                   aiConfidence |-> (reversed[k].aiConfidence * 9) \div 10 ] ]

\* A variant of the sort that leaves the list as it is.
sortLeavesOrder(fieldMappings) == fieldMappings

\* fieldMappings.sort((a, b) => b.aiConfidence - a.aiConfidence): highest
\* first, entries of equal confidence in their order of insertion.
RECURSIVE insertByConfidence(_, _)
insertByConfidence(sorted, entry) ==
    IF sorted = <<>> THEN <<entry>>
    ELSE IF Head(sorted).aiConfidence >= entry.aiConfidence
      THEN <<Head(sorted)>> \o insertByConfidence(Tail(sorted), entry)
      ELSE <<entry>> \o sorted

RECURSIVE sortFirst(_, _)
sortFirst(fieldMappings, n) ==
    IF n = 0 THEN <<>>
    ELSE insertByConfidence(sortFirst(fieldMappings, n - 1),
                            fieldMappings[n])

sortByConfidence(fieldMappings) ==
    sortFirst(fieldMappings, Len(fieldMappings))

\* The object type names passed in: the five of the rule table and one it
\* does not know.
ObjectTypes ==
    {"Account", "Contact", "Lead", "Opportunity", "Case", "Custom"}

\* generateFieldMappings is called with two object type names.
GeneratorInit ==
    /\ SyncQuiet
    /\ StatsQuiet
    /\ MapperQuiet
    /\ ResolverQuiet
    /\ PipelineQuiet
    /\ SocketQuiet
    /\ BatcherQuiet
    /\ gmSource \in ObjectTypes
    /\ gmTarget \in ObjectTypes
    /\ gmIndex = 0
    /\ gmMappings = <<>>
    /\ gmResult = <<>>
    /\ gmState = "matching"

\* One turn of the outer loop: the next source field is scored against
\* every target field.
GenerateNext ==
    /\ gmState = "matching"
    /\ gmIndex < Len(fieldMappingRules(gmSource))
    /\ gmIndex' = gmIndex + 1
    /\ gmMappings' = gmMappings
           \o matchesFor(fieldMappingRules(gmSource)[gmIndex + 1],
                         fieldMappingRules(gmTarget))
    /\ UNCHANGED <<gmSource, gmTarget, gmResult, gmState>>

\* The loop has ended: the cross-object entries are pushed when the two
\* types differ, the list is sorted in place and its first 20 entries are
\* returned.
GenerateReturn ==
    /\ gmState = "matching"
    /\ gmIndex = Len(fieldMappingRules(gmSource))
    /\ gmMappings' = sortByConfidence(
           gmMappings \o (IF gmSource # gmTarget
                            THEN generateCrossObjectMappings(gmSource,
                                                             gmTarget)
                            ELSE <<>>))
    /\ gmResult' = slice(gmMappings', 0, 20)
    /\ gmState' = "returned"
    /\ UNCHANGED <<gmSource, gmTarget, gmIndex>>

GeneratorNext ==
    \/ GenerateNext /\ UNCHANGED notGeneratorVars
    \/ GenerateReturn /\ UNCHANGED notGeneratorVars

GeneratorSpec == GeneratorInit /\ [][GeneratorNext]_vars

\* ------------------------------------------------------- the record loop

\* Object.keys(mappedRecord): the keys in the order of their first
\* assignment.
addKey(keys, key) ==
    IF \E k \in 1..Len(keys) : keys[k] = key THEN keys ELSE Append(keys, key)

RECURSIVE keysAfter(_, _)
keysAfter(keys, fieldMappings) ==
    IF fieldMappings = <<>> THEN keys
    ELSE keysAfter(addKey(keys, Head(fieldMappings).targetField),
                   Tail(fieldMappings))

\* mappedRecord._aiEnhancement = { entities, sentiment }: an object,
\* whatever the analysis found.
Enhancement == Obj

\* getFieldDataType for the field names that are drawn: the lower-case
\* name contains 'email' or 'phone' (String), 'date' (Date), 'amount' or
\* 'revenue' (Number), or none of them (String).
getFieldDataType(fieldName) ==
    CASE fieldName \in {"Email", "Phone"} -> "String"
      [] fieldName = "CloseDate" -> "Date"
      [] fieldName = "Amount" -> "Number"
      [] OTHER -> "String"

\* `existing_${mappedRecord[field]}`
existing(value) ==
    Str(<<"e", "x", "i", "s", "t", "i", "n", "g", "_">> \o toText(value))

\* detectConflicts when Math.random() < 0.15: one conflict for each of the
\* first two keys whose value is truthy.
conflictsAmong(mappedRecord, keys) ==
    LET conflictFields == slice(keys, 0, 2)
        kept == SelectSeq(conflictFields,
                          LAMBDA field : ~Falsy(mappedRecord[field]))
    IN  [ k \in 1..Len(kept) |->
            [ field |-> kept[k],
              sourceValue |-> mappedRecord[kept[k]],
              targetValue |-> existing(mappedRecord[kept[k]]),
              dataType |-> getFieldDataType(kept[k]) ] ]

\* resolveConflicts for a list of conflict objects: the batch returned.
resolveConflicts(conflicts, resolutionStrategy) ==
    LET resolutions ==
            [ k \in 1..Len(conflicts) |->
                resolveIndividualConflict(conflicts[k],
                    strategyOrDefault(resolutionStrategy)) ]
    IN  [ strategy |-> strategyOrDefault(resolutionStrategy),
          totalConflicts |-> Len(conflicts),
          resolvedConflicts |->
              Cardinality({ k \in 1..Len(resolutions) :
                              resolutions[k].resolved }),
          resolutions |-> resolutions,
          confidence |-> calculateOverallConfidence(resolutions) ]

\* A variant that applies no resolution.
applyNoResolution(mappedRecord, resolutions) == mappedRecord

\* applyConflictResolution: the resolved value of every resolution with
\* resolved = true is written to its field.
RECURSIVE applyConflictResolution(_, _)
applyConflictResolution(mappedRecord, resolutions) ==
    IF resolutions = <<>> THEN mappedRecord
    ELSE applyConflictResolution(
             IF Head(resolutions).resolved
               THEN assign(mappedRecord, Head(resolutions).field,
                           Head(resolutions).resolvedValue)
               ELSE mappedRecord,
             Tail(resolutions))

\* The inputs: a record, the mapping list of the integration and its
\* conflictResolution setting (the four of the schema, none, and one the
\* resolver does not know).
PipelineRecords ==
    { [ Name |-> Str(<<"A", "b">>), Phone |-> Num(7) ],
      [ Name |-> Str(<<>>), Phone |-> Str(<<"5", "5", "5">>) ],
      NULL }
PipelineMappings ==
    [ sourceField : SourceFields,
      targetField : {"FullName", "Phone", "Amount"},
      transformationRule : {Undefined, "normalizeName(value)"} ]
PipelineStrategies ==
    { Undefined, "source-wins", "target-wins", "latest-wins", "ai-resolve",
      "manual" }

\* The record loop of processBatch takes up a record.
PipelineInit ==
    /\ SyncQuiet
    /\ StatsQuiet
    /\ MapperQuiet
    /\ ResolverQuiet
    /\ GeneratorQuiet
    /\ SocketQuiet
    /\ BatcherQuiet
    /\ prSource \in PipelineRecords
    /\ prMappings \in SeqsUpTo(PipelineMappings, MaxMappings)
    /\ prStrategy \in PipelineStrategies
    /\ prState = "start"
    /\ prMapperOut = NoFields
    /\ prRecord = NoFields
    /\ prKeys = <<>>
    /\ prConflicts = <<>>
    /\ prResolution = NULL
    /\ prHanded = NULL

\* const mappedRecord = await this.applyFieldMappings(...): when it throws
\* the record has failed.
MapRecord ==
    /\ prState = "start"
    /\ LET out == applyFieldMappings(prSource, prMappings) IN
         IF out = Thrown
           THEN /\ prState' = "failed"
                /\ UNCHANGED <<prMapperOut, prRecord, prKeys>>
           ELSE /\ prState' = "mapped"
                /\ prMapperOut' = out
                /\ prRecord' = out
                /\ prKeys' = keysAfter(<<>>, prMappings)
    /\ UNCHANGED <<prSource, prMappings, prStrategy, prConflicts,
                   prResolution, prHanded>>

\* mappedRecord._aiEnhancement = {...}
EnhanceRecord ==
    /\ prState = "mapped"
    /\ prRecord' = assign(prRecord, "_aiEnhancement", Enhancement)
    /\ prKeys' = addKey(prKeys, "_aiEnhancement")
    /\ prState' = "enhanced"
    /\ UNCHANGED <<prSource, prMappings, prStrategy, prMapperOut,
                   prConflicts, prResolution, prHanded>>

\* const conflicts = await this.detectConflicts(...): none when the random
\* number is 0.15 or more.
DetectConflicts(roll) ==
    /\ prState = "enhanced"
    /\ prConflicts' = IF roll THEN conflictsAmong(prRecord, prKeys) ELSE <<>>
    /\ prState' = "detected"
    /\ UNCHANGED <<prSource, prMappings, prStrategy, prMapperOut, prRecord,
                   prKeys, prResolution, prHanded>>

\* if (conflicts.length > 0): the conflicts are resolved, and the
\* resolutions are applied when one of them has resolved = true.
ResolveDetected ==
    /\ prState = "detected"
    /\ IF Len(prConflicts) > 0
         THEN /\ prResolution' = resolveConflicts(prConflicts, prStrategy)
              /\ prRecord' =
                   IF prResolution'.resolvedConflicts > 0
                     THEN applyConflictResolution(prRecord,
                              prResolution'.resolutions)
                     ELSE prRecord
         ELSE UNCHANGED <<prResolution, prRecord>>
    /\ prState' = "resolved"
    /\ UNCHANGED <<prSource, prMappings, prStrategy, prMapperOut, prKeys,
                   prConflicts, prHanded>>

\* await this.syncToTarget(mappedRecord, ...): the write goes through or
\* the target system refuses it.
SyncRecord(written) ==
    /\ prState = "resolved"
    /\ prHanded' = prRecord
    /\ prState' = IF written THEN "synced" ELSE "failed"
    /\ UNCHANGED <<prSource, prMappings, prStrategy, prMapperOut, prRecord,
                   prKeys, prConflicts, prResolution>>

PipelineNext ==
    \/ MapRecord /\ UNCHANGED notPipelineVars
    \/ EnhanceRecord /\ UNCHANGED notPipelineVars
    \/ \E roll \in BOOLEAN : DetectConflicts(roll) /\ UNCHANGED notPipelineVars
    \/ ResolveDetected /\ UNCHANGED notPipelineVars
    \/ \E written \in BOOLEAN :
           SyncRecord(written) /\ UNCHANGED notPipelineVars

PipelineSpec == PipelineInit /\ [][PipelineNext]_vars

\* ------------------------------------------------------------ socket service

\* The listeners setupEventListeners attaches to a new socket: its own
\* handler for each of the events.
builtIn == [event \in SocketEvents |-> <<"toast">>]

\* listeners.splice(listeners.indexOf(callback), 1), and socket.off(event,
\* callback) of the emitter: the first occurrence is removed.
removeFirst(listeners, callback) ==
    IF \E k \in 1..Len(listeners) : listeners[k] = callback
      THEN LET index == CHOOSE k \in 1..Len(listeners) :
                            /\ listeners[k] = callback
                            /\ \A j \in 1..(k - 1) : listeners[j] # callback
           IN  SubSeq(listeners, 1, index - 1)
                 \o SubSeq(listeners, index + 1, Len(listeners))
      ELSE listeners

SocketInit ==
    /\ SyncQuiet
    /\ StatsQuiet
    /\ MapperQuiet
    /\ ResolverQuiet
    /\ GeneratorQuiet
    /\ PipelineQuiet
    /\ SocketQuiet
    /\ BatcherQuiet

\* on(event, callback): with no socket the callback is stored in
\* eventListeners, with a socket it is attached to the socket.
On(event, callback) ==
    /\ IF skSocket = NULL
         THEN /\ Len(skListeners[event]) < MaxListeners
              /\ skListeners' =
                   [skListeners EXCEPT ![event] = Append(@, callback)]
              /\ UNCHANGED skSocket
         ELSE /\ Len(skSocket.listeners[event]) <= MaxListeners
              /\ skSocket' =
                   [skSocket EXCEPT !.listeners[event] = Append(@, callback)]
              /\ UNCHANGED skListeners
    /\ UNCHANGED <<skIsConnected, skReceived>>

\* off(event, callback)
Off(event, callback) ==
    /\ skSocket' =
         IF skSocket = NULL THEN skSocket
         ELSE [skSocket EXCEPT
                  !.listeners[event] = removeFirst(@, callback)]
    /\ skListeners' =
         [skListeners EXCEPT ![event] = removeFirst(@, callback)]
    /\ UNCHANGED <<skIsConnected, skReceived>>

\* connect(): a new socket is created and setupEventListeners attaches
\* the handlers of the service to it.
Connect ==
    /\ skSocket' = [listeners |-> builtIn]
    /\ UNCHANGED <<skIsConnected, skListeners, skReceived>>

\* The socket fires 'connect': the connection is established.
Connected ==
    /\ skSocket # NULL
    /\ ~skIsConnected
    /\ skIsConnected' = TRUE
    /\ UNCHANGED <<skSocket, skListeners, skReceived>>

\* disconnect()
Disconnect ==
    /\ skSocket # NULL
    /\ skSocket' = NULL
    /\ skIsConnected' = FALSE
    /\ UNCHANGED <<skListeners, skReceived>>

\* The server emits an event: every callback attached to the socket for
\* it is called.
ServerEmits(event) ==
    /\ skSocket # NULL
    /\ skIsConnected
    /\ \A callback \in Callbacks : Len(skReceived[callback]) < MaxDeliveries
    /\ skReceived' =
         [ callback \in Callbacks |->
             IF \E k \in 1..Len(skSocket.listeners[event]) :
                    skSocket.listeners[event][k] = callback
               THEN Append(skReceived[callback], event)
               ELSE skReceived[callback] ]
    /\ UNCHANGED <<skSocket, skIsConnected, skListeners>>

SocketNext ==
    \/ \E event \in SocketEvents, callback \in Callbacks :
           On(event, callback) /\ UNCHANGED notSocketVars
    \/ \E event \in SocketEvents, callback \in Callbacks :
           Off(event, callback) /\ UNCHANGED notSocketVars
    \/ Connect /\ UNCHANGED notSocketVars
    \/ Connected /\ UNCHANGED notSocketVars
    \/ Disconnect /\ UNCHANGED notSocketVars
    \/ \E event \in SocketEvents :
           ServerEmits(event) /\ UNCHANGED notSocketVars

SocketSpec == SocketInit /\ [][SocketNext]_vars

\* ----------------------------------------------------------------- batching

\* querySourceData has returned n records; record k has Id k.
BatcherInit ==
    /\ \E n \in 0..MaxFetched :
           cbArray = [k \in 1..n |-> [Id |-> k]]
    /\ cbBatches = <<>>
    /\ cbState = "fetched"
    /\ SyncQuiet
    /\ StatsQuiet
    /\ MapperQuiet
    /\ ResolverQuiet
    /\ GeneratorQuiet
    /\ PipelineQuiet
    /\ SocketQuiet

\* const batches = this.createBatches(sourceData, batchSize);
CreateBatches ==
    /\ cbState = "fetched"
    /\ cbBatches' = createBatches(cbArray, batchSize)
    /\ cbState' = "batched"
    /\ UNCHANGED cbArray

BatcherNext == CreateBatches /\ UNCHANGED notBatcherVars

BatcherSpec == BatcherInit /\ [][BatcherNext]_vars

\* ------------------------------------------------------------- properties

\* performSync of run r has been called and has not settled.
InFlight(r) ==
    phase[r] \in {"Validating", "Authenticating", "Fetching", "ProcessingBatches"}

\* Kinds of entries of results.errors.
IsRecordError(e) == "recordId" \in DOMAIN e
IsBatchError(e) == "batch" \in DOMAIN e

\* C1: at most one sync is in flight per integration: while the performSync
\* run of one request for the integration has not reached Completed or
\* Failed, no second performSync run for it is under way.
C1_AtMostOneSyncInFlight ==
    \A r1, r2 \in Runs : r1 # r2 => ~(InFlight(r1) /\ InFlight(r2))

C3_CompletedCountsAddUp ==
    \A r \in Runs :
        phase[r] = "Completed" =>
            results[r].successfulRecords + results[r].failedRecords
                = results[r].totalRecords

\* A completed run with successful records, a failed record and a failed
\* batch.
C3_Witness ==
    \E r \in Runs :
        /\ phase[r] = "Completed"
        /\ results[r].successfulRecords > 0
        /\ \E k \in 1..Len(results[r].errors) : IsRecordError(results[r].errors[k])
        /\ \E k \in 1..Len(results[r].errors) : IsBatchError(results[r].errors[k])

Processing(r) ==
    /\ phase[r] = "ProcessingBatches"
    /\ ~pausing[r]
    /\ batchIndex[r] <= Len(batches[r])

CurrentBatch(r) == batches[r][batchIndex[r]]
Current(r) == CurrentBatch(r)[recordIndex[r]]

\* The batch loop of run r takes a step.
Stepped(r) ==
    <<batchIndex[r], recordIndex[r], pausing[r]>>'
        # <<batchIndex[r], recordIndex[r], pausing[r]>>

\* Mapping, conflict resolution or the write of element e fails in run r.
FailsInProcessing(r, e) ==
    \/ e = NULL
    \/ /\ e # NULL
       /\ \/ detectConflicts(e) > 0 /\ integration[r].syncSettings = NULL
          \/ syncToTarget(e) # Undefined

\* Failed records and error entries counted so far in run r, in the batch
\* under way and in the batches added up.
FailedSoFar(r) == results[r].failedRecords + batchResult[r].failed
ErrorsSoFar(r) == Len(results[r].errors) + Len(batchResult[r].errors)

C6_BatchFailureCountsWholeBatch ==
    [][ \A r \in Runs :
          (Processing(r) /\ Current(r) = NULL /\ Stepped(r)) =>
             LET i == batchIndex[r]
                 n == Len(CurrentBatch(r))
                 before == results[r].errors
                 after == results'[r].errors
             IN  /\ results'[r].failedRecords = results[r].failedRecords + n
                 /\ results'[r].successfulRecords = results[r].successfulRecords
                 /\ Len(after) = Len(before) + 1
                 /\ SubSeq(after, 1, Len(before)) = before
                 /\ IsBatchError(after[Len(after)])
                 /\ after[Len(after)].batch = i
                 /\ after[Len(after)].recordCount = n
                 /\ phase'[r] = "ProcessingBatches"
                 /\ batchIndex'[r] = i + 1
                 /\ recordIndex'[r] = 1
                 /\ batchResult'[r] = NoBatchResult
      ]_vars

\* A batch has raised a whole-batch exception and a record of the batch
\* after it has been handed to the target.
C6_Witness ==
    \E r \in Runs : \E k \in 1..Len(results[r].errors) :
        LET e == results[r].errors[k] IN
        /\ IsBatchError(e)
        /\ e.batch < Len(batches[r])
        /\ \E h \in 1..Len(handed[r]) :
              handed[r][h] \in { x.Id : x \in { y \in
                  { batches[r][e.batch + 1][j] :
                      j \in 1..Len(batches[r][e.batch + 1]) } : y # NULL } }

\* Run r has completed, and the target refused every record of batch b and
\* nothing else failed in the run.
OnlyBatchRefused(r, b) ==
    /\ phase[r] = "Completed"
    /\ b \in 1..Len(batches[r])
    /\ \A k \in 1..Len(sourceData) : sourceData[k] # NULL
    /\ targetRejects = { batches[r][b][j].Id : j \in 1..Len(batches[r][b]) }
    /\ \/ integration[r].syncSettings # NULL
       \/ \A k \in 1..Len(sourceData) : conflictPlan[k].detected = 0

\* C7 as stated: if the target fails every record of exactly one batch, the
\* errors list holds one entry for that batch, with its batch number and
\* recordCount equal to the batch size, and successfulRecords and
\* failedRecords are the record counts outside and inside that batch.
C7_OneEntryForTheBatch ==
    \A r \in Runs : \A b \in 1..Len(batches[r]) :
        OnlyBatchRefused(r, b) =>
            LET n == Len(batches[r][b])
                errs == results[r].errors
            IN  /\ Len(errs) = 1
                /\ IsBatchError(errs[1])
                /\ errs[1].batch = b
                /\ errs[1].recordCount = n
                /\ results[r].successfulRecords = results[r].totalRecords - n
                /\ results[r].failedRecords = n

\* C7 amended: if the target fails every record of exactly one batch, the
\* errors list holds one entry per record of that batch, in order, each with
\* the record's Id and the message of the target and none with a batch
\* number, and successfulRecords and failedRecords are the record counts
\* outside and inside that batch.
C7_OneEntryPerRefusedRecord ==
    \A r \in Runs : \A b \in 1..Len(batches[r]) :
        OnlyBatchRefused(r, b) =>
            LET n == Len(batches[r][b]) IN
            /\ results[r].errors =
                  [j \in 1..n |-> [recordId |-> batches[r][b][j].Id,
                                   error |-> "Target system error"]]
            /\ results[r].successfulRecords = results[r].totalRecords - n
            /\ results[r].failedRecords = n

\* 120 records, the target refused the 50 records of batch 2.
C7_Witness ==
    \E r \in Runs :
        /\ OnlyBatchRefused(r, 2)
        /\ results[r].totalRecords = 120
        /\ results[r].successfulRecords = 70
        /\ results[r].failedRecords = 50
        /\ Len(results[r].errors) = 50

\* The order of the phases of a request and its performSync run.
PhaseOrder ==
    { <<"Idle", "Rejected">>, <<"Idle", "Saving">>, <<"Saving", "Validating">>,
      <<"Validating", "Authenticating">>, <<"Validating", "Failed">>,
      <<"Authenticating", "Fetching">>, <<"Authenticating", "Failed">>,
      <<"Fetching", "ProcessingBatches">>, <<"Fetching", "Failed">>,
      <<"ProcessingBatches", "Completed">>, <<"ProcessingBatches", "Failed">> }

\* C8: every performSync run passes through Validating, Authenticating,
\* Fetching, ProcessingBatches in this order and ends in Completed or
\* Failed; querySourceData is called only when both authenticate calls have
\* returned a token, and a record is handed to the target only after the
\* source query has returned.
C8_PhasesInOrder ==
    [][ \A r \in Runs :
          /\ phase'[r] # phase[r] => <<phase[r], phase'[r]>> \in PhaseOrder
          /\ fetchCalls'[r] # fetchCalls[r] =>
                /\ phase[r] = "Authenticating"
                /\ auth'[r] = [source |-> "ok", target |-> "ok"]
          /\ handed'[r] # handed[r] =>
                /\ phase[r] = "ProcessingBatches"
                /\ fetchCalls[r] = 1
      ]_vars

\* A run that went through all phases and has written records.
C8_Witness ==
    \E r \in Runs :
        /\ phase[r] = "Completed"
        /\ auth[r] = [source |-> "ok", target |-> "ok"]
        /\ fetchCalls[r] = 1
        /\ handed[r] # <<>>

\* The integration lacks a source, a target, or field mappings.
LacksConfig(doc) ==
    \/ doc.sourceOrg = NULL
    \/ doc.targetOrg = NULL
    \/ doc.fieldMappings = NoArray
    \/ doc.fieldMappings = <<>>

\* C9: if the integration lacks a source, a target, or has an empty
\* field-mapping list, performSync ends in Failed and never calls
\* authenticate, querySourceData or syncToTarget.
C9_InvalidConfigFailsFast ==
    \A r \in Runs :
        (integration[r] # NULL /\ LacksConfig(integration[r])) =>
            /\ phase[r] \in {"Saving", "Validating", "Failed"}
            /\ authCalls[r] = 0
            /\ fetchCalls[r] = 0
            /\ handed[r] = <<>>
            /\ batches[r] = <<>>

\* performSync has failed for an integration with an empty mapping list.
C9_Witness ==
    \E r \in Runs :
        /\ integration[r] # NULL
        /\ integration[r].sourceOrg # NULL
        /\ integration[r].targetOrg # NULL
        /\ integration[r].fieldMappings = <<>>
        /\ phase[r] = "Failed"
        /\ thrown[r] # NULL
        /\ thrown[r].error = "At least one field mapping is required"

\* C10: if authentication of the source or of the target org fails, the
\* sync ends in Failed, querySourceData is never called and no record is
\* handed to the target, although both authenticate calls were started
\* together.
C10_AuthFailureFailsSync ==
    \A r \in Runs :
        (auth[r].source = "failed" \/ auth[r].target = "failed") =>
            /\ authCalls[r] = 2
            /\ phase[r] = "Failed"
            /\ thrown[r] # NULL
            /\ fetchCalls[r] = 0
            /\ batches[r] = <<>>
            /\ handed[r] = <<>>

\* One authenticate call returned a token, the other one failed.
C10_Witness ==
    \E r \in Runs :
        /\ auth[r].source = "ok"
        /\ auth[r].target = "failed"
        /\ phase[r] = "Failed"

\* C11: within one performSync run the batches are processed one after
\* another in index order and the records of a batch one after another: the
\* run moves from batch i to batch i + 1 only, and only when batch i has
\* finished (its last record was handled, its pause is over, or it was
\* aborted); within a batch it moves from a record to the next one; and a
\* step hands at most one record to syncToTarget, the record the run is at.
C11_BatchesOneAfterAnother ==
    [][ \A r \in Runs :
          /\ (phase[r] = "ProcessingBatches" /\ batchIndex'[r] # batchIndex[r]) =>
                /\ batchIndex'[r] = batchIndex[r] + 1
                /\ recordIndex'[r] = 1
                /\ \/ pausing[r]
                   \/ Current(r) = NULL
                   \/ recordIndex[r] = Len(CurrentBatch(r))
          /\ (phase[r] = "ProcessingBatches" /\ batchIndex'[r] = batchIndex[r]
                /\ recordIndex'[r] # recordIndex[r]) =>
                recordIndex'[r] = recordIndex[r] + 1
          /\ handed'[r] # handed[r] =>
                /\ Processing(r)
                /\ Current(r) # NULL
                /\ handed'[r] = Append(handed[r], Current(r).Id)
      ]_vars

\* A completed run of three batches that wrote all of its 120 records.
C11_Witness ==
    \E r \in Runs :
        /\ phase[r] = "Completed"
        /\ Len(batches[r]) = 3
        /\ handed[r] = [k \in 1..(2 * batchSize + 20) |-> k]

TimesHanded(r, id) ==
    Cardinality({ k \in 1..Len(handed[r]) : handed[r][k] = id })

CausesOf(r) ==
    { validateIntegrationConfig(integration[r]) }
      \cup (IF validateIntegrationConfig(integration[r]) = Undefined
              THEN { authenticate(integration[r].sourceOrg),
                     authenticate(integration[r].targetOrg) }
              ELSE {})

\* C14: performSync ends in Failed only when validation or authentication
\* failed (the source query of this code cannot fail), before any batch was
\* cut, and then the thrown object carries the message of the originating
\* error and the time elapsed; a run that has entered the batch loop never
\* fails, whatever happens to its records and batches: it completes without
\* throwing, and each failure of an element shows in results.errors.
C14_OnlySetupFailuresFail ==
    /\ [](\A r \in Runs :
            /\ phase[r] = "Failed" =>
                 /\ thrown[r] # NULL
                 /\ thrown[r].error # Undefined
                 /\ thrown[r].error \in CausesOf(r)
                 /\ thrown[r].processingTime = elapsed[r]
                 /\ fetchCalls[r] = 0
                 /\ results[r] = NoResults
            /\ phase[r] # "Failed" => thrown[r] = NULL
            /\ phase[r] = "Completed" =>
                 ((\E k \in 1..Len(sourceData) :
                        FailsInProcessing(r, sourceData[k]))
                    => results[r].errors # <<>>))
    /\ [][ \A r \in Runs :
             phase[r] = "ProcessingBatches" =>
                 phase'[r] \in {"ProcessingBatches", "Completed"} ]_vars

\* A run failed by an authentication error: the thrown object carries the
\* message of authenticate and the 300 ms awaited, and the route has sent
\* 'sync-failed'.
C14_Witness ==
    \E r \in Runs :
        /\ phase[r] = "Failed"
        /\ validateIntegrationConfig(integration[r]) = Undefined
        /\ thrown[r].error \in { authenticate(integration[r].sourceOrg),
                                 authenticate(integration[r].targetOrg) }
        /\ thrown[r].processingTime = 300
        /\ emitted[r] = <<"sync-started", "sync-failed">>

\* The webhook processings for integration i whose statistics update the
\* store has applied.
UpdatesApplied(i) ==
    { t \in WebhookTasks : task[t].state = "done" /\ task[t].integration = i }

\* C15: statistics updates are atomic increments on the store: in every
\* interleaving of webhook processings, after N updates of an integration
\* its totalSyncs counter has grown by exactly N.
C15_NoStatsUpdateLost ==
    \A i \in IntegrationIds :
        store[i].totalSyncs = Cardinality(UpdatesApplied(i))

\* Two processings of one integration loaded the document before either
\* update, and both updates have been applied.
C15_Witness ==
    \E i \in IntegrationIds : \E t1, t2 \in WebhookTasks :
        /\ t1 # t2
        /\ {t1, t2} \subseteq UpdatesApplied(i)
        /\ task[t1].loaded.totalSyncs = 0
        /\ task[t2].loaded.totalSyncs = 0
        /\ store[i].totalSyncs >= 2

\* The value mapping m alone gives its target field, for the record being
\* mapped.
ProducedBy(m) == mapOne(NoFields, mapRecord, m)[m.targetField]

\* No later mapping of the list names the target field of mapping k.
LastForItsTarget(k) ==
    \A j \in (k + 1)..Len(mapList) :
        mapList[j].targetField # mapList[k].targetField

\* C16: fan-out overwrite: the mapped record has the target fields of the
\* list as its fields, and when several mappings name the same target
\* field its value is the one produced by the last of them in list order,
\* for every record and every mapping list.
C16_LastMappingWins ==
    mapState = "returned" =>
        /\ DOMAIN mapped
             = { mapList[k].targetField : k \in 1..Len(mapList) }
        /\ \A k \in 1..Len(mapList) :
               LastForItsTarget(k) =>
                   mapped[mapList[k].targetField] = ProducedBy(mapList[k])

\* Two mappings with the same target field and different source fields
\* that produce different values: the record holds the second value.
C16_Witness ==
    /\ mapState = "returned"
    /\ Len(mapList) = 2
    /\ mapList[1].targetField = mapList[2].targetField
    /\ mapList[1].sourceField # mapList[2].sourceField
    /\ ProducedBy(mapList[1]) # ProducedBy(mapList[2])
    /\ mapped[mapList[2].targetField] = ProducedBy(mapList[2])
    /\ mapped[mapList[2].targetField]
         = Str(<<"(", "5", "5", "5", ")", " ", "1", "2", "3", "-",
                 "4", "5", "6", "7">>)

\* The transformer of mapping k is called and throws.
TransformerFails(k) ==
    LET value == mapRecord[mapList[k].sourceField]
        rule == mapList[k].transformationRule
    IN  /\ rule # Undefined
        /\ ~Nullish(value)
        /\ ~Falsy(value)
        /\ transformer(value, rule) = Thrown

\* C17: a failure inside a transformer never aborts the mapping of a
\* record: applyFieldMappings still returns a mapped record, in which the
\* affected target field holds the untransformed source value (unless a
\* later mapping overwrites it) and every field holds what it would hold
\* if the failing mapping had no transformation rule.
C17_TransformerFailureFallsBack ==
    mapRecord # NULL =>
        /\ mapState # "threw"
        /\ mapState = "returned" =>
             \A k \in 1..Len(mapList) :
                 TransformerFails(k) =>
                     /\ LastForItsTarget(k) =>
                            mapped[mapList[k].targetField]
                                = mapRecord[mapList[k].sourceField]
                     /\ mapped = applyFieldMappings(mapRecord,
                            [mapList EXCEPT ![k].transformationRule = Undefined])

\* A returned record one field of which comes from a transformer that
\* threw (a number handed to a string transformer) and the other from a
\* transformer that worked.
C17_Witness ==
    /\ mapState = "returned"
    /\ Len(mapList) = 2
    /\ TransformerFails(1)
    /\ mapped[mapList[1].targetField] = Num(7)
    /\ mapList[2].targetField # mapList[1].targetField
    /\ mapped[mapList[2].targetField] = Str(<<"A", "b", " ", "C">>)

\* The resolutions made so far under the strategy given.
ResolutionsUnder(strategy) ==
    IF strategyOrDefault(rcStrategy) = strategy
      THEN { rcResolutions[k] : k \in 1..Len(rcResolutions) }
      ELSE {}

\* C18: under the source-wins strategy the resolvedValue of every
\* resolution equals the sourceValue of its conflict, for every data type,
\* known, unknown or missing, and the conflict counts as resolved.
C18_SourceWinsTakesSource ==
    \A res \in ResolutionsUnder("source-wins") :
        /\ res.resolvedValue = res.sourceValue
        /\ res.resolved

\* A conflict of an unknown data type with two different values was
\* resolved under source-wins and the batch was returned.
C18_Witness ==
    /\ rcBatch # NULL
    /\ rcStrategy = "source-wins"
    /\ Len(rcConflicts) = 1
    /\ rcConflicts[1] # NULL
    /\ rcConflicts[1].dataType = "Object"
    /\ rcConflicts[1].sourceValue = Str(<<"x", "1">>)
    /\ rcConflicts[1].targetValue = Str(<<"a", "@", "b", ".", "c">>)
    /\ rcBatch.resolutions[1].resolvedValue = Str(<<"x", "1">>)

\* C19: under the latest-wins strategy, with no update timestamps
\* available (a conflict carries none), the resolution falls back to the
\* source: resolvedValue equals sourceValue.
C19_LatestWinsFallsBackToSource ==
    \A res \in ResolutionsUnder("latest-wins") :
        res.resolvedValue = res.sourceValue

\* C20: every resolution with resolved = true has a resolvedValue that is
\* not null (nor undefined), for every strategy and every conflict.
C20_ResolvedValueNotNull ==
    \A k \in 1..Len(rcResolutions) :
        rcResolutions[k].resolved => ~Nullish(rcResolutions[k].resolvedValue)

\* The strategy names resolveIndividualConflict has a rule for.
KnownStrategies ==
    {"ai-resolve", "source-wins", "target-wins", "latest-wins", "merge"}

\* Every element of the conflict list is a conflict.
AllConflicts == \A k \in 1..Len(rcConflicts) : rcConflicts[k] # NULL

\* C21: a failure while resolving one conflict (an unknown strategy name,
\* a rule that throws on its values) is caught: its resolution has
\* resolvedValue = sourceValue, resolved = false and confidence 0.5, the
\* conflicts after it are still resolved, and the batch that
\* resolveConflicts returns has one resolution per conflict, in order.
C21_ResolutionFailureIsCaught ==
    /\ \A k \in 1..Len(rcResolutions) :
          /\ strategyOrDefault(rcStrategy) \notin KnownStrategies
                => ~rcResolutions[k].resolved
          /\ ~rcResolutions[k].resolved
                => /\ rcResolutions[k].resolvedValue
                        = rcConflicts[k].sourceValue
                   /\ rcResolutions[k].confidence = 50
    /\ (rcBatch # NULL /\ AllConflicts)
          => /\ Len(rcBatch.resolutions) = Len(rcConflicts)
             /\ \A k \in 1..Len(rcConflicts) :
                   /\ rcBatch.resolutions[k].field = rcConflicts[k].field
                   /\ rcBatch.resolutions[k].sourceValue
                        = rcConflicts[k].sourceValue

\* The first conflict of two failed (a phone rule applied to numbers),
\* the second was resolved all the same, and the batch holds both.
C21_Witness ==
    /\ rcBatch # NULL
    /\ Len(rcConflicts) = 2
    /\ AllConflicts
    /\ rcConflicts[1].field = "Phone"
    /\ rcConflicts[1].targetValue = Num(9)
    /\ Len(rcBatch.resolutions) = 2
    /\ ~rcBatch.resolutions[1].resolved
    /\ rcBatch.resolutions[1].resolvedValue = Num(3)
    /\ rcBatch.resolutions[2].resolved

\* C22: the batch resolveConflicts returns is consistent with its input:
\* totalConflicts is the number of conflicts passed in, resolvedConflicts
\* is the number of resolutions with resolved = true and never exceeds
\* totalConflicts, and for an empty conflict list the confidence is 0.
C22_BatchConsistentWithInput ==
    rcBatch # NULL =>
        /\ rcBatch.totalConflicts = Len(rcConflicts)
        /\ rcBatch.resolvedConflicts
             = Cardinality({ k \in 1..Len(rcBatch.resolutions) :
                               rcBatch.resolutions[k].resolved })
        /\ rcBatch.resolvedConflicts <= rcBatch.totalConflicts
        /\ (rcConflicts = <<>> => rcBatch.confidence = 0)

\* A batch of two conflicts was returned, one of them resolved.
C22_Witness ==
    /\ rcBatch # NULL
    /\ Len(rcConflicts) = 2
    /\ Len(rcBatch.resolutions) = 2
    /\ rcBatch.totalConflicts = 2
    /\ rcBatch.resolvedConflicts = 1
    /\ rcBatch.resolutions[1].resolved
    /\ ~rcBatch.resolutions[2].resolved

\* C23: for every pair of object type names, known or unknown, the list
\* the Mapping Generator returns has at most 20 entries and its
\* confidences are non-increasing from first to last, the cross-object
\* entries included.
C23_AtMostTwentySortedByConfidence ==
    gmState = "returned" =>
        /\ Len(gmResult) <= 20
        /\ \A k \in 1..(Len(gmResult) - 1) :
               gmResult[k].aiConfidence >= gmResult[k + 1].aiConfidence

\* The list for Account -> Lead was returned: it holds the reversed
\* cross-object entry Name -> Company (0.855) between entries scored by
\* similarity.
C23_Witness ==
    /\ gmState = "returned"
    /\ gmSource = "Account"
    /\ gmTarget = "Lead"
    /\ Len(gmResult) = 14
    /\ \E k \in 2..13 :
          /\ gmResult[k] = [ sourceField |-> words.Name, targetField |-> words.Company,
                             aiConfidence |-> 855 ]
          /\ gmResult[k - 1].aiConfidence = 900
          /\ gmResult[k + 1].aiConfidence = 810
    /\ gmResult[14].aiConfidence = 800

\* The resolutions of the record in the loop.
Resolved(field) ==
    /\ prResolution # NULL
    /\ \E k \in 1..Len(prResolution.resolutions) :
          /\ prResolution.resolutions[k].field = field
          /\ prResolution.resolutions[k].resolved
ResolvedValue(field) ==
    prResolution.resolutions[
        CHOOSE k \in 1..Len(prResolution.resolutions) :
            /\ prResolution.resolutions[k].field = field
            /\ prResolution.resolutions[k].resolved ].resolvedValue

\* C24: for a record with detected conflicts, the record handed to the
\* Destination Writer holds resolvedValue at every field whose resolution
\* has resolved = true, and every other field the Field Mapper produced
\* (without a conflict, or with a resolution that has resolved = false)
\* keeps the value the Field Mapper gave it.
C24_ResolvedValuesOverwriteMapped ==
    (prHanded # NULL /\ prConflicts # <<>>) =>
        /\ \A field \in DOMAIN prHanded :
              Resolved(field) => prHanded[field] = ResolvedValue(field)
        /\ \A field \in DOMAIN prMapperOut :
              ~Resolved(field) => prHanded[field] = prMapperOut[field]

\* Under ai-resolve the conflict on Phone (a number) was left unresolved
\* and the one on FullName was merged: the record handed over holds the
\* merged text at FullName and the mapped number at Phone.
C24_Witness ==
    /\ prHanded # NULL
    /\ Len(prConflicts) = 2
    /\ prResolution.resolvedConflicts = 1
    /\ ~Resolved("Phone")
    /\ Resolved("FullName")
    /\ prMapperOut["FullName"] = Str(<<"A", "b">>)
    /\ prHanded["FullName"] = Str(<<"A", "b", " ", "|", " ", "e", "x", "i",
                                   "s", "t", "i", "n", "g", "_", "A", "b">>)
    /\ prHanded["Phone"] = Num(7)

\* C25: the record handed to the Destination Writer is a mapping from
\* target field names only: its keys are the targetField names of the
\* mapping list, and every conflict field is one of them.
C25_OnlyTargetFieldsReachDestination ==
    LET targetFields ==
            { prMappings[k].targetField : k \in 1..Len(prMappings) }
    IN  /\ prHanded # NULL => DOMAIN prHanded = targetFields
        /\ \A k \in 1..Len(prConflicts) :
              prConflicts[k].field \in targetFields

\* C26: a listener registered through on(event, callback) while no socket
\* exists is stored, and once connect() has established the connection it
\* is attached to the socket, so that it receives the events of that name
\* delivered afterwards.
C26_StoredListenersAttachedOnConnect ==
    (skSocket # NULL /\ skIsConnected) =>
        \A event \in SocketEvents :
            \A k \in 1..Len(skListeners[event]) :
                \E j \in 1..Len(skSocket.listeners[event]) :
                    skSocket.listeners[event][j] = skListeners[event][k]

\* C27: after a manual sync has set the status of the integration to
\* 'syncing', the status eventually leaves 'syncing' once performSync has
\* completed or failed: no integration stays in 'syncing' for ever after
\* its run has ended.
C27_StatusLeavesSyncing ==
    \A r \in Runs :
        (phase[r] \in {"Completed", "Failed"})
            ~> (db = NULL \/ db.status # "syncing")

\* C28: every accepted sync trigger emits 'sync-started' and is eventually
\* followed by exactly one of 'sync-completed' and 'sync-failed', never
\* both and never neither; a trigger for a missing or inactive integration
\* emits none of the three events and starts no run.
C28_StartedThenExactlyOneOutcome ==
    /\ [](\A r \in Runs :
            /\ emitted[r] \in { <<>>, <<"sync-started">>,
                                <<"sync-started", "sync-completed">>,
                                <<"sync-started", "sync-failed">> }
            /\ phase[r] \notin {"Idle", "Rejected", "Saving"}
                   => Len(emitted[r]) >= 1
            /\ phase[r] = "Rejected"
                   => /\ emitted[r] = <<>>
                      /\ authCalls[r] = 0
                      /\ fetchCalls[r] = 0
                      /\ integration[r] = NULL)
    /\ \A r \in Runs : (phase[r] = "Saving") ~> (Len(emitted[r]) = 2)
C28_Witness ==
    \E r \in Runs : /\ emitted[r] = <<"sync-started", "sync-failed">>
                    /\ phase[r] = "Failed"

\* C29: after any sequence of webhook processings the statistics of every
\* integration satisfy totalSyncs = successfulSyncs + failedSyncs, once no
\* update is on its way: every processed webhook adds one to totalSyncs and
\* to exactly one of the two outcome counters.
C29_TotalIsSuccessfulPlusFailed ==
    (\A t \in WebhookTasks : task[t].state \in {"idle", "done"}) =>
        \A i \in IntegrationIds :
            store[i].totalSyncs
                = store[i].successfulSyncs + store[i].failedSyncs

\* The batches of a list, one after the other.
RECURSIVE Concatenated(_)
Concatenated(list) ==
    IF list = <<>> THEN <<>> ELSE Head(list) \o Concatenated(Tail(list))

\* C30: createBatches partitions the fetched records: the batches
\* concatenated in order give back the record list, every batch but the
\* last has exactly batchSize (50) records, the last has between 1 and 50,
\* and an empty record list gives no batch, so every fetched record is in
\* exactly one batch.
C30_BatchesPartitionRecords ==
    cbState = "batched" =>
        /\ Concatenated(cbBatches) = cbArray
        /\ \A b \in 1..(Len(cbBatches) - 1) : Len(cbBatches[b]) = batchSize
        /\ cbBatches # <<>> =>
               /\ Len(cbBatches[Len(cbBatches)]) >= 1
               /\ Len(cbBatches[Len(cbBatches)]) <= batchSize
        /\ cbArray = <<>> => cbBatches = <<>>
        /\ \A k \in 1..Len(cbArray) :
               Cardinality({ <<b, j>> \in (1..Len(cbBatches)) \X (1..batchSize) :
                                /\ j <= Len(cbBatches[b])
                                /\ cbBatches[b][j] = cbArray[k] }) = 1
C30_Witness ==
    /\ cbState = "batched"
    /\ Len(cbArray) = 2 * batchSize + 1
    /\ Len(cbBatches) = 3
    /\ Len(cbBatches[3]) = 1

====
